---- MODULE Spec2Model ----
(***************************************************************************)
(* Escrow accounting, settlement and fee distribution of the attention     *)
(* marketplace programs:                                                   *)
(*   payment_router        (payment-router/programs/payment_router)        *)
(*   attention-marketplace (solana-program/programs/attention-marketplace) *)
(*   attention_marketplace (solana/programs/attention_marketplace)         *)
(*   fee_splitter          (payment-router/programs/fee_splitter)          *)
(* Every instruction is one atomic step.  An instruction that returns an   *)
(* error, or panics, is rolled back by the runtime: it changes no account. *)
(* The variable last records the instruction that ran last, its inputs,    *)
(* its result and the values it computed.                                  *)
(***************************************************************************)
EXTENDS Integers, Sequences, FiniteSets, TLC

\* ---------------------------------------------------------------- bounds

\* Largest value of the unsigned balance type.  The programs use u64; the
\* model keeps the width but scales it to 30 bits.
MaxU64 == 1073741823

\* Number of successful settlements in one behaviour.
MaxSettlements == 2

\* Number of successful splits in one behaviour.
MaxSplits == 2

\* Tokens of the main mint the agent starts with.
AgentTokens == 2000000

\* ------------------------------------------------------------- constants

\* Denominator of the fee rate (basis points).
BpsDenominator == 10000

\* Largest referrer share fee_splitter accepts (basis points).
MaxReferrerBps == 5000

\* Builder share of a fee: 3/15.
BuilderNum == 3
BuilderDen == 15

\* ---------------------------------------------------------------- inputs

Programs ==
  {"payment_router", "attention-marketplace", "attention_marketplace", "fee_splitter"}

\* Signers.  admin initializes, alice funds escrows, mallory is an outsider.
Identities == {"admin", "alice", "mallory"}
Agents == {"alice"}
NoKey == "none"

\* Token accounts owned by one escrow differ by mint.
Mints == {"usdc", "alt"}

\* fee_basis_points is a u16: nothing bounds it by 10000.
FeeBps == {1500, 20000}

Amounts == {0, 1000000, MaxU64}

\* Who initializes the singletons.
Initializers == {"admin"}

\* <<verified_seconds, price_per_second>>
Usage == {<<100, 5000>>, <<11, 111>>, <<5, 1>>, <<MaxU64, 1>>, <<MaxU64, 2>>}

\* The nonce every settlement is called with.
Nonces == {7}

Codes == {"b1"}
NoCode == "nocode"

\* Deposits: every amount into the main vault, and the largest amount into
\* the escrow's token account of the second mint.
DepositCalls ==
  {[amount |-> a, mint |-> "usdc"] : a \in Amounts}
    \cup {[amount |-> MaxU64, mint |-> "alt"]}

\* Withdrawals by the agents, and one by a signer that has no escrow.
WithdrawCalls ==
  {[agent |-> g, amount |-> 1000000, mint |-> "usdc"] : g \in Agents \cup {"mallory"}}

\* Registrations by the admin and by an outsider.
RegisterCalls ==
  {[admin |-> "admin", wallet |-> "alice"], [admin |-> "mallory", wallet |-> "mallory"]}

\* Rotations between the two wallets, where the signer that is not the
\* current wallet is an outsider, and an attempt by the admin.
UpdateCalls ==
  {[old_wallet |-> "alice", new_wallet |-> "mallory"],
   [old_wallet |-> "mallory", new_wallet |-> "alice"],
   [old_wallet |-> "admin", new_wallet |-> "mallory"]}

\* Keys that are the address of a token account.  claim_builder_balance
\* names the signer itself as the destination of its transfer.
TokenAccountKeys == {"alice"}

\* Signers of a builder claim and of a protocol claim.
BuilderClaimers == {"alice", "mallory"}
ProtocolClaimers == {"admin", "mallory"}

\* Settlements.  The authority with every usage and no builder; with a
\* builder code, with and without its BuilderBalance account; the other
\* signers; the escrow's own token account given as the recipient; a
\* BuilderBalance account given without a code.
SettleCalls ==
  {[router |-> "admin", usage |-> u, code |-> NoCode, acct |-> NoCode,
    mint |-> "usdc", to |-> "user"] : u \in Usage}
    \cup {[router |-> "admin", usage |-> u, code |-> "b1", acct |-> "b1",
           mint |-> "usdc", to |-> "user"] : u \in {<<100, 5000>>, <<11, 111>>}}
    \cup {[router |-> "admin", usage |-> <<11, 111>>, code |-> "b1", acct |-> NoCode,
           mint |-> "usdc", to |-> "user"]}
    \cup {[router |-> "mallory", usage |-> <<5, 1>>, code |-> NoCode, acct |-> NoCode,
           mint |-> "usdc", to |-> "user"]}
    \cup {[router |-> "admin", usage |-> <<5, 1>>, code |-> NoCode, acct |-> NoCode,
           mint |-> "alt", to |-> "vault"]}
    \cup {[router |-> "admin", usage |-> <<MaxU64, 1>>, code |-> NoCode, acct |-> NoCode,
           mint |-> "alt", to |-> "user"]}
    \cup {[router |-> "admin", usage |-> <<5, 1>>, code |-> NoCode, acct |-> "b1",
           mint |-> "usdc", to |-> "user"]}

\* ----------------------------------------------------- integer arithmetic

\* Result of a checked operation that overflowed (Option::None).
None == -1

checked_mul(a, b) == IF b = 0 \/ a <= MaxU64 \div b THEN a * b ELSE None

checked_add(a, b) == IF a <= MaxU64 - b THEN a + b ELSE None

checked_sub(a, b) == IF a >= b THEN a - b ELSE None

wrapping_add(a, b) == IF a <= MaxU64 - b THEN a + b ELSE (a - (MaxU64 - b)) - 1

wrapping_sub(a, b) == IF a >= b THEN a - b ELSE (MaxU64 - (b - a)) + 1

VARIABLES
  prog,              \* the program this behaviour runs
  overflow_checks,   \* build profile: do + and - panic on overflow, or wrap
  settlements,       \* successful settlements (fee_splitter: splits) so far
  wallet,            \* tokens in the agent's own token accounts, by agent and mint
  last,              \* the last instruction and its result
  pr_market_config,  \* payment_router MarketConfig
  pr_fee_vault_state,\* payment_router FeeVaultState
  pr_builder,        \* payment_router BuilderBalance, by builder code
  pr_escrow,         \* payment_router EscrowAccount, by agent
  pr_vault,          \* tokens in the escrow's token accounts, by agent and mint
  pr_fee_vault,      \* tokens in the fee vault's token accounts, by mint
  sp_config,         \* attention-marketplace MarketConfig
  sp_escrow,         \* attention-marketplace EscrowState, by agent and task
  sp_vault,          \* tokens in the task's escrow_vault
  sp_fuel_tank,      \* attention-marketplace FuelTank: does the account exist
  sp_fuel_tank_vault,\* tokens in the fuel tank's token account
  sp_human,          \* tokens in the recipient's associated token account
  am_config,         \* attention_marketplace MarketConfig
  am_escrow,         \* attention_marketplace EscrowAccount, by agent
  am_vault,          \* tokens in the token account the escrow owns
  fs_config,         \* fee_splitter SplitterConfig
  fs_token           \* tokens in the token accounts of a split, by owner

pr_vars == <<pr_market_config, pr_fee_vault_state, pr_builder, pr_escrow,
             pr_vault, pr_fee_vault>>
sp_tank_vars == <<sp_fuel_tank, sp_fuel_tank_vault, sp_human>>
sp_vars == <<sp_config, sp_escrow, sp_vault, sp_tank_vars>>
am_vars == <<am_config, am_escrow, am_vault>>
fs_vars == <<fs_config, fs_token>>

vars == <<prog, overflow_checks, settlements, wallet, last, pr_vars, sp_vars, am_vars,
          fs_vars>>

\* a + b and a - b written without checked_*: the build decides.
unchecked_add(a, b) == IF overflow_checks THEN checked_add(a, b) ELSE wrapping_add(a, b)

unchecked_sub(a, b) == IF overflow_checks THEN checked_sub(a, b) ELSE wrapping_sub(a, b)

\* ------------------------------------------------------------------- last

\* For an instruction that failed, undone_writes counts the account fields
\* the handler had written and undone_transfers lists the transfers it had
\* made when it failed; the runtime discards them with the instruction.
NoLast ==
  [op |-> "none", caller |-> NoKey, escrow |-> NoKey, mint |-> "none",
   amount |-> 0, seconds |-> 0, price |-> 0, bps |-> 0,
   code |-> NoCode, acct |-> NoCode, to |-> "none",
   err |-> "none", bal_before |-> 0, vault_before |-> 0,
   protocol_before |-> 0, collected_before |-> 0,
   builder_before |-> 0, earned_before |-> 0, wallet_before |-> NoKey,
   gross |-> 0, fee |-> 0, net |-> 0,
   protocol_share |-> 0, builder_share |-> 0, transfers |-> <<>>,
   undone_writes |-> 0, undone_transfers |-> <<>>,
   treasury |-> NoKey, treasury_amount |-> 0, referrer_amount |-> 0,
   total_before |-> 0, nonce |-> 0]

Xfer(from, to, amount) == [from |-> from, to |-> to, amount |-> amount]

Ok == "Ok"

\* ========================================================= payment_router

NoConfig == [exists |-> FALSE, authority |-> NoKey, fee_basis_points |-> 0]

NoFeeVaultState ==
  [exists |-> FALSE, authority |-> NoKey, protocol_balance |-> 0, total_collected |-> 0]

NoBuilder ==
  [exists |-> FALSE, builder_code |-> NoCode, wallet |-> NoKey,
   balance |-> 0, total_earned |-> 0]

NoEscrow == [exists |-> FALSE, agent |-> NoKey, balance |-> 0]

\* The token program's transfer out of an account holding `have`.
TokenDebitOk(have, amount) == have >= amount

\* The token program's transfer into an account holding `have`.
TokenCreditOk(have, amount) == have <= MaxU64 - amount

\* initialize_market_config: the account is created by `init`, so a second
\* call fails; the handler stores the signer and the rate as given.
pr_initialize_market_config ==
  /\ prog = "payment_router"
  /\ \E admin \in Initializers, fee_basis_points \in FeeBps :
       LET err == IF pr_market_config.exists THEN "AccountAlreadyInUse" ELSE Ok
           l == [NoLast EXCEPT !.op = "initialize_market_config", !.caller = admin,
                               !.bps = fee_basis_points, !.err = err]
       IN /\ last' = l
          /\ pr_market_config' =
               IF err = Ok
               THEN [exists |-> TRUE, authority |-> admin,
                     fee_basis_points |-> fee_basis_points]
               ELSE pr_market_config
          /\ UNCHANGED <<sp_vars, am_vars, fs_vars, prog, overflow_checks, settlements, wallet, pr_fee_vault_state,
                         pr_builder, pr_escrow, pr_vault, pr_fee_vault>>

pr_initialize_fee_vault ==
  /\ prog = "payment_router"
  /\ \E admin \in Initializers :
       LET err == IF pr_fee_vault_state.exists THEN "AccountAlreadyInUse" ELSE Ok
           l == [NoLast EXCEPT !.op = "initialize_fee_vault", !.caller = admin,
                               !.err = err]
       IN /\ last' = l
          /\ pr_fee_vault_state' =
               IF err = Ok
               THEN [exists |-> TRUE, authority |-> admin,
                     protocol_balance |-> 0, total_collected |-> 0]
               ELSE pr_fee_vault_state
          /\ UNCHANGED <<sp_vars, am_vars, fs_vars, prog, overflow_checks, settlements, wallet, pr_market_config,
                         pr_builder, pr_escrow, pr_vault, pr_fee_vault>>

\* RegisterBuilder with init_if_needed in the place of init.
pr_RegisterBuilder_if_needed(admin, builder_code) == Ok

\* The accounts check of RegisterBuilder: `init` on the account derived from
\* the code; the signer is not compared with any stored authority.
pr_RegisterBuilder(admin, builder_code) ==
  IF pr_builder[builder_code].exists THEN "AccountAlreadyInUse" ELSE Ok

\* register_builder: stores the code and the wallet, with zero balances.
pr_register_builder ==
  /\ prog = "payment_router"
  /\ \E c \in RegisterCalls, builder_code \in Codes :
       LET admin == c.admin
           builder_wallet == c.wallet
           err == pr_RegisterBuilder(admin, builder_code)
           l == [NoLast EXCEPT !.op = "register_builder", !.caller = admin,
                               !.code = builder_code, !.to = builder_wallet,
                               !.err = err,
                               !.builder_before = pr_builder[builder_code].balance,
                               !.earned_before = pr_builder[builder_code].total_earned,
                               !.wallet_before = pr_builder[builder_code].wallet]
       IN /\ last' = l
          /\ pr_builder' =
               IF err = Ok
               THEN [pr_builder EXCEPT ![builder_code] =
                       [exists |-> TRUE, builder_code |-> builder_code,
                        wallet |-> builder_wallet,
                        balance |-> 0, total_earned |-> 0]]
               ELSE pr_builder
          /\ UNCHANGED <<sp_vars, am_vars, fs_vars, prog, overflow_checks, settlements, wallet, pr_market_config,
                         pr_fee_vault_state, pr_escrow, pr_vault, pr_fee_vault>>

\* UpdateBuilderWallet with the wallet constraint left out.
pr_UpdateBuilderWallet_any_signer(old_wallet, code) ==
  IF ~pr_builder[code].exists THEN "AccountNotInitialized" ELSE Ok

\* The accounts check of UpdateBuilderWallet: builder_balance.wallet must be
\* the signer old_wallet.
pr_UpdateBuilderWallet(old_wallet, code) ==
  IF ~pr_builder[code].exists THEN "AccountNotInitialized"
  ELSE IF ~(pr_builder[code].wallet = old_wallet) THEN "Unauthorized"
  ELSE Ok

\* update_builder_wallet: the accounts check, then the store of new_wallet.
pr_update_builder_wallet ==
  /\ prog = "payment_router"
  /\ \E c \in UpdateCalls, code \in Codes :
       LET old_wallet == c.old_wallet
           new_wallet == c.new_wallet
           b == pr_builder[code]
           err == pr_UpdateBuilderWallet(old_wallet, code)
           l == [NoLast EXCEPT !.op = "update_builder_wallet", !.caller = old_wallet,
                               !.code = code, !.to = new_wallet, !.err = err,
                               !.builder_before = b.balance,
                               !.earned_before = b.total_earned,
                               !.wallet_before = b.wallet]
       IN /\ last' = l
          /\ pr_builder' =
               IF err = Ok
               THEN [pr_builder EXCEPT ![code].wallet = new_wallet]
               ELSE pr_builder
          /\ UNCHANGED <<sp_vars, am_vars, fs_vars, prog, overflow_checks, settlements, wallet, pr_market_config,
                         pr_fee_vault_state, pr_escrow, pr_vault, pr_fee_vault>>

\* deposit_escrow, as a record: err, and the new balance when err = Ok.
pr_deposit_escrow_result(agent, amount, mint) ==
  LET esc == pr_escrow[agent]
      vault == pr_vault[agent][mint]
      balance == unchecked_add(esc.balance, amount)
  IN IF ~TokenDebitOk(wallet[agent][mint], amount) \/ ~TokenCreditOk(vault, amount)
     THEN [err |-> "TokenError", balance |-> esc.balance,
           undone_writes |-> 0, undone_transfers |-> <<>>]
     ELSE IF balance = None
     THEN [err |-> "Panic", balance |-> esc.balance,
           undone_writes |-> 1,
           undone_transfers |-> <<Xfer("agent_token_account", "vault", amount)>>]
     ELSE [err |-> Ok, balance |-> balance,
           undone_writes |-> 0, undone_transfers |-> <<>>]

pr_deposit_escrow ==
  /\ prog = "payment_router"
  /\ \E agent \in Agents, c \in DepositCalls :
       LET amount == c.amount
           mint == c.mint
           r == pr_deposit_escrow_result(agent, amount, mint)
           l == [NoLast EXCEPT !.op = "deposit_escrow", !.caller = agent,
                               !.escrow = agent, !.mint = mint, !.amount = amount,
                               !.err = r.err,
                               !.bal_before = pr_escrow[agent].balance,
                               !.vault_before = pr_vault[agent][mint],
                               !.undone_writes = r.undone_writes,
                               !.undone_transfers = r.undone_transfers,
                               !.transfers =
                                 IF r.err = Ok
                                 THEN <<Xfer("agent_token_account", "vault", amount)>>
                                 ELSE <<>>]
       IN /\ last' = l
          /\ IF r.err = Ok
             THEN /\ pr_escrow' = [pr_escrow EXCEPT ![agent] =
                        [exists |-> TRUE, agent |-> agent, balance |-> r.balance]]
                  /\ pr_vault' = [pr_vault EXCEPT ![agent][mint] = @ + amount]
                  /\ wallet' = [wallet EXCEPT ![agent][mint] = @ - amount]
             ELSE UNCHANGED <<pr_escrow, pr_vault, wallet>>
          /\ UNCHANGED <<sp_vars, am_vars, fs_vars, prog, overflow_checks, settlements, pr_market_config,
                         pr_fee_vault_state, pr_builder, pr_fee_vault>>

\* withdraw_escrow without the comparison of the balance with the amount.
pr_withdraw_escrow_no_require(agent, amount, mint) ==
  LET esc == pr_escrow[agent]
      vault == pr_vault[agent][mint]
  IN IF ~esc.exists THEN "AccountNotInitialized"
     ELSE IF ~TokenDebitOk(vault, amount) \/ ~TokenCreditOk(wallet[agent][mint], amount)
     THEN "TokenError"
     ELSE Ok

\* withdraw_escrow: the escrow is the one derived from the signer.
pr_withdraw_escrow_result(agent, amount, mint) ==
  LET esc == pr_escrow[agent]
      vault == pr_vault[agent][mint]
  IN IF ~esc.exists THEN "AccountNotInitialized"
     ELSE IF ~(esc.balance >= amount) THEN "InsufficientFunds"
     ELSE IF ~TokenDebitOk(vault, amount) \/ ~TokenCreditOk(wallet[agent][mint], amount)
     THEN "TokenError"
     ELSE Ok

pr_withdraw_escrow ==
  /\ prog = "payment_router"
  /\ \E c \in WithdrawCalls :
       LET agent == c.agent
           amount == c.amount
           mint == c.mint
           owner == IF agent \in Agents THEN agent ELSE NoKey
           err == IF owner = NoKey THEN "AccountNotInitialized"
                  ELSE pr_withdraw_escrow_result(agent, amount, mint)
           l == [NoLast EXCEPT !.op = "withdraw_escrow", !.caller = agent,
                               !.escrow = owner, !.mint = mint, !.amount = amount,
                               !.err = err,
                               !.bal_before =
                                 IF owner = NoKey THEN 0 ELSE pr_escrow[owner].balance,
                               !.vault_before =
                                 IF owner = NoKey THEN 0 ELSE pr_vault[owner][mint],
                               !.transfers =
                                 IF err = Ok
                                 THEN <<Xfer("vault", "agent_token_account", amount)>>
                                 ELSE <<>>]
       IN /\ last' = l
          /\ IF err = Ok
             THEN /\ pr_escrow' = [pr_escrow EXCEPT ![agent].balance = @ - amount]
                  /\ pr_vault' = [pr_vault EXCEPT ![agent][mint] = @ - amount]
                  /\ wallet' = [wallet EXCEPT ![agent][mint] = @ + amount]
             ELSE UNCHANGED <<pr_escrow, pr_vault, wallet>>
          /\ UNCHANGED <<sp_vars, am_vars, fs_vars, prog, overflow_checks, settlements, pr_market_config,
                         pr_fee_vault_state, pr_builder, pr_fee_vault>>

\* gross = verified_seconds * price, or None.
pr_total_payout(verified_seconds, agreed_price_per_second) ==
  checked_mul(verified_seconds, agreed_price_per_second)

\* total_payout.checked_mul(fee_bps).unwrap() / 10000, or None for the panic.
pr_fee_amount(total_payout, fee_bps) ==
  LET product == checked_mul(total_payout, fee_bps)
  IN IF product = None THEN None ELSE product \div BpsDenominator

\* total_payout - fee_amount, written with the plain operator.
pr_net_payout(total_payout, fee_amount) == unchecked_sub(total_payout, fee_amount)

\* A builder share of one fifteenth of the fee.
pr_builder_share_fifteenth(fee_amount) == fee_amount \div BuilderDen

\* fee_amount.checked_mul(3).unwrap() / 15, or None for the panic.
pr_builder_share(fee_amount) ==
  LET product == checked_mul(fee_amount, BuilderNum)
  IN IF product = None THEN None ELSE product \div BuilderDen

\* The protocol's 12/15 computed on its own: the rounding remainder is lost.
pr_protocol_share_scaled(fee_amount, builder_share) ==
  (fee_amount * (BuilderDen - BuilderNum)) \div BuilderDen

\* The builder's share added to the protocol's share, not taken from it.
pr_protocol_share_added(fee_amount, builder_share) == fee_amount + builder_share

\* total_earned left as it was when the share is credited.
pr_total_earned_kept(total_earned, builder_share) == total_earned

\* builder_balance.total_earned += builder_share.
pr_total_earned(total_earned, builder_share) ==
  unchecked_add(total_earned, builder_share)

\* protocol_share = fee_amount - builder_share.
pr_protocol_share(fee_amount, builder_share) == fee_amount - builder_share

\* The protocol's share without a builder, with the builder's part withheld.
pr_protocol_takes_rest(fee_amount) ==
  fee_amount - (fee_amount * BuilderNum) \div BuilderDen

\* protocol_share = fee_amount, when no code is given or no BuilderBalance
\* account is passed.
pr_protocol_takes_all(fee_amount) == fee_amount

\* A nonce refused once a settlement with it has been applied (every
\* settlement carries the one nonce of Nonces).
pr_nonce_check_once(nonce) == IF settlements > 0 THEN "NonceUsed" ELSE Ok

\* The handler takes _nonce and never reads it: no nonce is refused.
pr_nonce_check(nonce) == Ok

\* The accounts check of CloseSettlement, before the handler runs.
\* acct: the BuilderBalance account passed, or NoCode when it is left out.
pr_CloseSettlement(router, agent, code_opt, acct) ==
  IF ~pr_market_config.exists \/ ~pr_fee_vault_state.exists \/ ~pr_escrow[agent].exists
  THEN "AccountNotInitialized"
  ELSE IF acct # NoCode /\ ~pr_builder[acct].exists THEN "AccountNotInitialized"
  ELSE IF ~(router = pr_market_config.authority) THEN "ConstraintRaw"
  ELSE IF acct # NoCode /\ acct # code_opt THEN "ConstraintSeeds"
  ELSE Ok

\* The handler of close_settlement, statement by statement.  to: the token
\* account given as user_wallet, "user" or the escrow's own "vault".
pr_close_settlement_result(agent, verified_seconds, agreed_price_per_second, code_opt, acct, mint, to) ==
  LET esc == pr_escrow[agent]
      vault == pr_vault[agent][mint]
      fee_vault == pr_fee_vault[mint]
      state == pr_fee_vault_state
      \* The handler stops with e, having written w fields and made transfers t.
      fail(e, w, t) ==
        [err |-> e, gross |-> 0, fee |-> 0, net |-> 0,
         protocol_share |-> 0, builder_share |-> 0,
         balance |-> esc.balance, vault |-> vault, fee_vault |-> fee_vault,
         builder_balance |-> 0, total_earned |-> 0,
         protocol_balance |-> state.protocol_balance,
         total_collected |-> state.total_collected, transfers |-> <<>>,
         undone_writes |-> w, undone_transfers |-> t]
      total_payout == pr_total_payout(verified_seconds, agreed_price_per_second)
  IN
  IF total_payout = None THEN fail("MathOverflow", 0, <<>>)
  ELSE IF ~(esc.balance >= total_payout) THEN fail("InsufficientFunds", 0, <<>>)
  ELSE
  LET balance == esc.balance - total_payout
      fee_amount == pr_fee_amount(total_payout, pr_market_config.fee_basis_points)
  IN
  IF fee_amount = None THEN fail("Panic", 1, <<>>)
  ELSE
  LET net_payout == pr_net_payout(total_payout, fee_amount) IN
  IF net_payout = None THEN fail("Panic", 1, <<>>)
  ELSE IF net_payout > 0 /\ ~TokenDebitOk(vault, net_payout)
  THEN fail("TokenError", 1, <<>>)
  ELSE
  LET vault1 == IF net_payout > 0 /\ to # "vault" THEN vault - net_payout ELSE vault
      t1 == IF net_payout > 0 THEN <<Xfer("vault", to, net_payout)>> ELSE <<>>
  IN
  IF fee_amount = 0
  THEN [fail(Ok, 0, <<>>) EXCEPT !.gross = total_payout, !.net = net_payout,
                                 !.balance = balance, !.vault = vault1,
                                 !.transfers = t1]
  ELSE IF ~TokenDebitOk(vault1, fee_amount) \/ ~TokenCreditOk(fee_vault, fee_amount)
  THEN fail("TokenError", 1, t1)
  ELSE
  LET t2 == t1 \o <<Xfer("vault", "fee_vault", fee_amount)>>
      resolved == code_opt # NoCode /\ acct # NoCode
      builder_share == IF resolved THEN pr_builder_share(fee_amount) ELSE 0
  IN
  IF builder_share = None THEN fail("Panic", 1, t2)
  ELSE
  LET protocol_share ==
        IF resolved THEN pr_protocol_share(fee_amount, builder_share)
        ELSE pr_protocol_takes_all(fee_amount)
      builder_balance ==
        IF resolved THEN unchecked_add(pr_builder[acct].balance, builder_share) ELSE 0
      total_earned ==
        IF resolved THEN pr_total_earned(pr_builder[acct].total_earned, builder_share) ELSE 0
      protocol_balance == unchecked_add(state.protocol_balance, protocol_share)
      total_collected == unchecked_add(state.total_collected, fee_amount)
      w == IF resolved THEN 3 ELSE 1
  IN
  IF builder_balance = None THEN fail("Panic", 1, t2)
  ELSE IF total_earned = None THEN fail("Panic", 2, t2)
  ELSE IF protocol_balance = None THEN fail("Panic", w, t2)
  ELSE IF total_collected = None THEN fail("Panic", w + 1, t2)
  ELSE [err |-> Ok, gross |-> total_payout, fee |-> fee_amount, net |-> net_payout,
        protocol_share |-> protocol_share, builder_share |-> builder_share,
        balance |-> balance, vault |-> vault1 - fee_amount,
        fee_vault |-> fee_vault + fee_amount,
        builder_balance |-> builder_balance, total_earned |-> total_earned,
        protocol_balance |-> protocol_balance, total_collected |-> total_collected,
        transfers |-> t2, undone_writes |-> 0, undone_transfers |-> <<>>]

pr_close_settlement ==
  /\ prog = "payment_router"
  /\ settlements < MaxSettlements
  /\ \E agent \in Agents, c \in SettleCalls, nonce \in Nonces :
       LET router == c.router
           u == c.usage
           code_opt == c.code
           acct == c.acct
           mint == c.mint
           to == c.to
           accounts == pr_CloseSettlement(router, agent, code_opt, acct)
           pre == IF accounts # Ok THEN accounts ELSE pr_nonce_check(nonce)
           r == pr_close_settlement_result(agent, u[1], u[2], code_opt, acct, mint, to)
           err == IF pre # Ok THEN pre ELSE r.err
           l == [NoLast EXCEPT !.op = "close_settlement", !.caller = router,
                   !.nonce = nonce,
                   !.escrow = agent, !.mint = mint, !.seconds = u[1], !.price = u[2],
                   !.code = code_opt, !.acct = acct, !.to = to, !.err = err,
                   !.bps = pr_market_config.fee_basis_points,
                   !.bal_before = pr_escrow[agent].balance,
                   !.vault_before = pr_vault[agent][mint],
                   !.protocol_before = pr_fee_vault_state.protocol_balance,
                   !.collected_before = pr_fee_vault_state.total_collected,
                   !.builder_before = IF acct # NoCode THEN pr_builder[acct].balance ELSE 0,
                   !.earned_before =
                     IF acct # NoCode THEN pr_builder[acct].total_earned ELSE 0,
                   !.gross = IF err = Ok THEN r.gross ELSE 0,
                   !.fee = IF err = Ok THEN r.fee ELSE 0,
                   !.net = IF err = Ok THEN r.net ELSE 0,
                   !.protocol_share = IF err = Ok THEN r.protocol_share ELSE 0,
                   !.builder_share = IF err = Ok THEN r.builder_share ELSE 0,
                   !.transfers = IF err = Ok THEN r.transfers ELSE <<>>,
                   !.undone_writes = IF pre = Ok THEN r.undone_writes ELSE 0,
                   !.undone_transfers = IF pre = Ok THEN r.undone_transfers ELSE <<>>]
       IN /\ last' = l
          /\ IF err = Ok
             THEN /\ pr_escrow' = [pr_escrow EXCEPT ![agent].balance = r.balance]
                  /\ pr_vault' = [pr_vault EXCEPT ![agent][mint] = r.vault]
                  /\ pr_fee_vault' = [pr_fee_vault EXCEPT ![mint] = r.fee_vault]
                  /\ pr_fee_vault_state' =
                       [pr_fee_vault_state EXCEPT
                          !.protocol_balance = r.protocol_balance,
                          !.total_collected = r.total_collected]
                  /\ pr_builder' =
                       IF r.fee > 0 /\ code_opt # NoCode /\ acct # NoCode
                       THEN [pr_builder EXCEPT ![acct].balance = r.builder_balance,
                                               ![acct].total_earned = r.total_earned]
                       ELSE pr_builder
                  /\ settlements' = settlements + 1
             ELSE UNCHANGED <<pr_escrow, pr_vault, pr_fee_vault, pr_fee_vault_state,
                              pr_builder, settlements>>
          /\ UNCHANGED <<sp_vars, am_vars, fs_vars, prog, overflow_checks, wallet, pr_market_config>>

\* claim_builder_balance without the comparison of the balance with zero.
pr_claim_builder_balance_no_require(builder_wallet, code, mint) ==
  LET b == pr_builder[code]
  IN IF ~b.exists \/ ~pr_fee_vault_state.exists THEN "AccountNotInitialized"
     ELSE IF ~(b.wallet = builder_wallet) THEN "Unauthorized"
     ELSE IF builder_wallet \notin TokenAccountKeys
             \/ ~TokenDebitOk(pr_fee_vault[mint], b.balance)
     THEN "TokenError"
     ELSE Ok

\* claim_builder_balance with the wallet constraint left out.
pr_claim_builder_balance_any_signer(builder_wallet, code, mint) ==
  LET b == pr_builder[code]
  IN IF ~b.exists \/ ~pr_fee_vault_state.exists THEN "AccountNotInitialized"
     ELSE IF ~(b.balance > 0) THEN "NothingToClaim"
     ELSE IF builder_wallet \notin TokenAccountKeys
             \/ ~TokenDebitOk(pr_fee_vault[mint], b.balance)
     THEN "TokenError"
     ELSE Ok

\* claim_builder_balance: the wallet constraint, then the whole balance is paid
\* from a token account of the fee vault.
pr_claim_builder_balance_result(builder_wallet, code, mint) ==
  LET b == pr_builder[code]
  IN IF ~b.exists \/ ~pr_fee_vault_state.exists THEN "AccountNotInitialized"
     ELSE IF ~(b.wallet = builder_wallet) THEN "Unauthorized"
     ELSE IF ~(b.balance > 0) THEN "NothingToClaim"
     ELSE IF builder_wallet \notin TokenAccountKeys
             \/ ~TokenDebitOk(pr_fee_vault[mint], b.balance)
     THEN "TokenError"
     ELSE Ok

pr_claim_builder_balance ==
  /\ prog = "payment_router"
  /\ \E builder_wallet \in BuilderClaimers, code \in Codes, mint \in {"usdc"} :
       LET err == pr_claim_builder_balance_result(builder_wallet, code, mint)
           amount == pr_builder[code].balance
           l == [NoLast EXCEPT !.op = "claim_builder_balance", !.caller = builder_wallet,
                   !.code = code, !.mint = mint, !.err = err,
                   !.bal_before = amount, !.vault_before = pr_fee_vault[mint],
                   !.protocol_before = pr_fee_vault_state.protocol_balance,
                   !.collected_before = pr_fee_vault_state.total_collected,
                   !.builder_before = amount,
                   !.earned_before = pr_builder[code].total_earned,
                   !.wallet_before = pr_builder[code].wallet,
                   !.amount = IF err = Ok THEN amount ELSE 0,
                   !.transfers =
                     IF err = Ok THEN <<Xfer("fee_vault", "builder_wallet", amount)>>
                     ELSE <<>>]
       IN /\ last' = l
          /\ IF err = Ok
             THEN /\ pr_builder' = [pr_builder EXCEPT ![code].balance = 0]
                  /\ pr_fee_vault' = [pr_fee_vault EXCEPT ![mint] = @ - amount]
             ELSE UNCHANGED <<pr_builder, pr_fee_vault>>
          /\ UNCHANGED <<sp_vars, am_vars, fs_vars, prog, overflow_checks, settlements, wallet, pr_market_config,
                         pr_fee_vault_state, pr_escrow, pr_vault>>

\* claim_protocol_fees with the authority constraint left out.
pr_claim_protocol_fees_any_signer(admin, mint) ==
  LET state == pr_fee_vault_state
  IN IF ~state.exists THEN "AccountNotInitialized"
     ELSE IF ~(state.protocol_balance > 0) THEN "NothingToClaim"
     ELSE IF ~TokenDebitOk(pr_fee_vault[mint], state.protocol_balance) THEN "TokenError"
     ELSE Ok

\* claim_protocol_fees: the authority constraint, then the whole protocol
\* balance is paid from a token account of the fee vault.
pr_claim_protocol_fees_result(admin, mint) ==
  LET state == pr_fee_vault_state
  IN IF ~state.exists THEN "AccountNotInitialized"
     ELSE IF ~(state.authority = admin) THEN "Unauthorized"
     ELSE IF ~(state.protocol_balance > 0) THEN "NothingToClaim"
     ELSE IF ~TokenDebitOk(pr_fee_vault[mint], state.protocol_balance) THEN "TokenError"
     ELSE Ok

pr_claim_protocol_fees ==
  /\ prog = "payment_router"
  /\ \E admin \in ProtocolClaimers, mint \in {"usdc"} :
       LET err == pr_claim_protocol_fees_result(admin, mint)
           amount == pr_fee_vault_state.protocol_balance
           l == [NoLast EXCEPT !.op = "claim_protocol_fees", !.caller = admin,
                   !.mint = mint, !.err = err,
                   !.bal_before = amount, !.vault_before = pr_fee_vault[mint],
                   !.protocol_before = amount,
                   !.collected_before = pr_fee_vault_state.total_collected,
                   !.amount = IF err = Ok THEN amount ELSE 0,
                   !.transfers =
                     IF err = Ok THEN <<Xfer("fee_vault", "admin_wallet", amount)>>
                     ELSE <<>>]
       IN /\ last' = l
          /\ IF err = Ok
             THEN /\ pr_fee_vault_state' =
                       [pr_fee_vault_state EXCEPT !.protocol_balance = 0]
                  /\ pr_fee_vault' = [pr_fee_vault EXCEPT ![mint] = @ - amount]
             ELSE UNCHANGED <<pr_fee_vault_state, pr_fee_vault>>
          /\ UNCHANGED <<sp_vars, am_vars, fs_vars, prog, overflow_checks, settlements, wallet, pr_market_config,
                         pr_builder, pr_escrow, pr_vault>>

pr_Init ==
  /\ pr_market_config = NoConfig
  /\ pr_fee_vault_state = NoFeeVaultState
  /\ pr_builder = [c \in Codes |-> NoBuilder]
  /\ pr_escrow = [a \in Agents |-> NoEscrow]
  /\ pr_vault = [a \in Agents |-> [m \in Mints |-> 0]]
  /\ pr_fee_vault = [m \in Mints |-> 0]

\* ================================================== attention-marketplace
\* (solana-program/programs/attention-marketplace)

Tasks == {"t1"}
EscrowKeys == Agents \X Tasks

NoEscrowState == [exists |-> FALSE, agent |-> NoKey, task_id |-> "none", balance |-> 0]

\* Funding: every amount into the task's vault, and two amounts into another
\* token account of the agent (escrow_vault is any token account).
FundCalls ==
  {[amount |-> a, to |-> "vault", mint |-> "usdc"] : a \in Amounts}
    \cup {[amount |-> a, to |-> "other", mint |-> "alt"] : a \in {MaxU64 - 1000000, MaxU64}}

\* Tokens sent to the fuel tank in one transfer.
TankAmounts == {1000000}

\* Payouts: by the authority within and beyond what the tank can hold, by an
\* outsider, and by the authority to a token account of another mint.
PayoutCalls ==
  {[authority |-> "admin", amount |-> a, mint |-> "usdc"] : a \in {1000000, MaxU64}}
    \cup {[authority |-> "mallory", amount |-> 1000000, mint |-> "usdc"]}
    \cup {[authority |-> "admin", amount |-> 1000000, mint |-> "alt"]}

StreamCalls ==
  {[router |-> "admin", usage |-> u] : u \in Usage \cup {<<110, 5000>>}}
    \cup {[router |-> r, usage |-> <<5, 1>>] : r \in {"alice", "mallory"}}

sp_initialize_config ==
  /\ prog = "attention-marketplace"
  /\ \E admin \in Initializers, fee_basis_points \in FeeBps :
       LET err == IF sp_config.exists THEN "AccountAlreadyInUse" ELSE Ok
           l == [NoLast EXCEPT !.op = "initialize_config", !.caller = admin,
                               !.bps = fee_basis_points, !.err = err]
       IN /\ last' = l
          /\ sp_config' =
               IF err = Ok
               THEN [exists |-> TRUE, authority |-> admin,
                     fee_basis_points |-> fee_basis_points]
               ELSE sp_config
          /\ UNCHANGED <<pr_vars, am_vars, fs_vars, sp_tank_vars, prog, overflow_checks, settlements, wallet,
                         sp_escrow, sp_vault>>

sp_create_task ==
  /\ prog = "attention-marketplace"
  /\ \E agent \in Agents, task_id \in Tasks :
       LET k == <<agent, task_id>>
           err == IF sp_escrow[k].exists THEN "AccountAlreadyInUse" ELSE Ok
           l == [NoLast EXCEPT !.op = "create_task", !.caller = agent,
                               !.escrow = agent, !.err = err,
                               !.bal_before = sp_escrow[k].balance]
       IN /\ last' = l
          /\ sp_escrow' =
               IF err = Ok
               THEN [sp_escrow EXCEPT ![k] =
                       [exists |-> TRUE, agent |-> agent, task_id |-> task_id,
                        balance |-> 0]]
               ELSE sp_escrow
          /\ UNCHANGED <<pr_vars, am_vars, fs_vars, sp_tank_vars, prog, overflow_checks, settlements, wallet,
                         sp_config, sp_vault>>

\* fund_escrow: has_one = agent, the transfer, then the checked addition.
sp_fund_escrow_result(agent, k, amount, to, mint) ==
  LET escrow == sp_escrow[k]
      balance == checked_add(escrow.balance, amount)
      fail(e, t) == [err |-> e, balance |-> escrow.balance, undone_transfers |-> t]
  IN IF ~escrow.exists THEN fail("AccountNotInitialized", <<>>)
     ELSE IF ~(escrow.agent = agent) THEN fail("ConstraintHasOne", <<>>)
     ELSE IF ~TokenDebitOk(wallet[agent][mint], amount)
             \/ (to = "vault" /\ ~TokenCreditOk(sp_vault[k], amount))
     THEN fail("TokenError", <<>>)
     ELSE IF balance = None
     THEN fail("Panic", <<Xfer("agent_token_account", to, amount)>>)
     ELSE [err |-> Ok, balance |-> balance, undone_transfers |-> <<>>]

sp_fund_escrow ==
  /\ prog = "attention-marketplace"
  /\ \E agent \in Identities, k \in EscrowKeys, c \in FundCalls :
       LET r == sp_fund_escrow_result(agent, k, c.amount, c.to, c.mint)
           l == [NoLast EXCEPT !.op = "fund_escrow", !.caller = agent,
                   !.escrow = k[1], !.mint = c.mint, !.amount = c.amount,
                   !.to = c.to, !.err = r.err,
                   !.bal_before = sp_escrow[k].balance,
                   !.vault_before = sp_vault[k],
                   !.undone_transfers = r.undone_transfers,
                   !.transfers =
                     IF r.err = Ok
                     THEN <<Xfer("agent_token_account", c.to, c.amount)>>
                     ELSE <<>>]
       IN /\ last' = l
          /\ IF r.err = Ok
             THEN /\ sp_escrow' = [sp_escrow EXCEPT ![k].balance = r.balance]
                  /\ IF c.to = "vault"
                     THEN /\ sp_vault' = [sp_vault EXCEPT ![k] = @ + c.amount]
                          /\ wallet' = [wallet EXCEPT ![agent][c.mint] = @ - c.amount]
                     ELSE UNCHANGED <<sp_vault, wallet>>
             ELSE UNCHANGED <<sp_escrow, sp_vault, wallet>>
          /\ UNCHANGED <<pr_vars, am_vars, fs_vars, sp_tank_vars, prog, overflow_checks, settlements,
                         sp_config>>

sp_total_payment(verified_seconds, price_per_second) ==
  checked_mul(verified_seconds, price_per_second)

sp_fee_amount(total_payment, fee_bps) ==
  LET product == checked_mul(total_payment, fee_bps)
  IN IF product = None THEN None ELSE product \div BpsDenominator

sp_user_amount(total_payment, fee_amount) == checked_sub(total_payment, fee_amount)

\* The accounts check of StreamPayHuman: has_one = authority together with
\* config.authority == router.key().
sp_StreamPayHuman(router, k) ==
  IF ~sp_config.exists \/ ~sp_escrow[k].exists THEN "AccountNotInitialized"
  ELSE IF ~(sp_config.authority = router) THEN "ConstraintRaw"
  ELSE Ok

\* The fee transfer with its error dropped instead of returned.
sp_fee_transfer_error_dropped(vault, fee_amount) ==
  IF fee_amount > 0 /\ TokenDebitOk(vault, fee_amount)
  THEN [err |-> Ok, vault |-> vault - fee_amount,
        transfers |-> <<Xfer("vault", "fee_treasury", fee_amount)>>]
  ELSE [err |-> Ok, vault |-> vault, transfers |-> <<>>]

\* The fee transfer of stream_pay_human: made only for a positive amount; it
\* fails when the vault holds less, and the handler returns the error.
sp_fee_transfer(vault, fee_amount) ==
  IF ~(fee_amount > 0) THEN [err |-> Ok, vault |-> vault, transfers |-> <<>>]
  ELSE IF ~TokenDebitOk(vault, fee_amount)
  THEN [err |-> "TokenError", vault |-> vault, transfers |-> <<>>]
  ELSE [err |-> Ok, vault |-> vault - fee_amount,
        transfers |-> <<Xfer("vault", "fee_treasury", fee_amount)>>]

sp_stream_pay_human_result(k, verified_seconds, price_per_second) ==
  LET escrow == sp_escrow[k]
      vault == sp_vault[k]
      \* The handler stops with e, having written w fields and made transfers t.
      fail(e, w, t) ==
        [err |-> e, gross |-> 0, fee |-> 0, net |-> 0,
         balance |-> escrow.balance, vault |-> vault, transfers |-> <<>>,
         undone_writes |-> w, undone_transfers |-> t]
      total_payment == sp_total_payment(verified_seconds, price_per_second)
  IN
  IF total_payment = None THEN fail("Panic", 0, <<>>)
  ELSE
  LET fee_amount == sp_fee_amount(total_payment, sp_config.fee_basis_points) IN
  IF fee_amount = None THEN fail("Panic", 0, <<>>)
  ELSE
  LET user_amount == sp_user_amount(total_payment, fee_amount) IN
  IF user_amount = None THEN fail("Panic", 0, <<>>)
  ELSE IF ~(escrow.balance >= total_payment) THEN fail("InsufficientFunds", 0, <<>>)
  ELSE IF user_amount > 0 /\ ~TokenDebitOk(vault, user_amount)
  THEN fail("TokenError", 1, <<>>)
  ELSE
  LET vault1 == IF user_amount > 0 THEN vault - user_amount ELSE vault
      t1 == IF user_amount > 0 THEN <<Xfer("vault", "user", user_amount)>> ELSE <<>>
      f == sp_fee_transfer(vault1, fee_amount)
  IN
  IF f.err # Ok THEN fail(f.err, 1, t1)
  ELSE [err |-> Ok, gross |-> total_payment, fee |-> fee_amount, net |-> user_amount,
        balance |-> escrow.balance - total_payment,
        vault |-> f.vault, transfers |-> t1 \o f.transfers,
        undone_writes |-> 0, undone_transfers |-> <<>>]

sp_stream_pay_human ==
  /\ prog = "attention-marketplace"
  /\ settlements < MaxSettlements
  /\ \E k \in EscrowKeys, c \in StreamCalls :
       LET pre == sp_StreamPayHuman(c.router, k)
           r == sp_stream_pay_human_result(k, c.usage[1], c.usage[2])
           err == IF pre # Ok THEN pre ELSE r.err
           l == [NoLast EXCEPT !.op = "stream_pay_human", !.caller = c.router,
                   !.escrow = k[1], !.mint = "usdc",
                   !.seconds = c.usage[1], !.price = c.usage[2], !.to = "user",
                   !.err = err, !.bps = sp_config.fee_basis_points,
                   !.bal_before = sp_escrow[k].balance,
                   !.vault_before = sp_vault[k],
                   !.gross = IF err = Ok THEN r.gross ELSE 0,
                   !.fee = IF err = Ok THEN r.fee ELSE 0,
                   !.net = IF err = Ok THEN r.net ELSE 0,
                   !.transfers = IF err = Ok THEN r.transfers ELSE <<>>,
                   !.undone_writes = IF pre = Ok THEN r.undone_writes ELSE 0,
                   !.undone_transfers = IF pre = Ok THEN r.undone_transfers ELSE <<>>]
       IN /\ last' = l
          /\ IF err = Ok
             THEN /\ sp_escrow' = [sp_escrow EXCEPT ![k].balance = r.balance]
                  /\ sp_vault' = [sp_vault EXCEPT ![k] = r.vault]
                  /\ settlements' = settlements + 1
             ELSE UNCHANGED <<sp_escrow, sp_vault, settlements>>
          /\ UNCHANGED <<pr_vars, am_vars, fs_vars, sp_tank_vars, prog, overflow_checks, wallet, sp_config>>

\* refund_remainder without the comparison of the balance with zero.
sp_refund_remainder_no_require(agent, k) ==
  LET escrow == sp_escrow[k]
  IN IF ~escrow.exists THEN "AccountNotInitialized"
     ELSE IF ~(escrow.agent = agent) THEN "ConstraintHasOne"
     ELSE IF ~TokenDebitOk(sp_vault[k], escrow.balance)
             \/ ~TokenCreditOk(wallet[agent]["usdc"], escrow.balance)
     THEN "TokenError"
     ELSE Ok

\* refund_remainder: has_one = agent, the balance must be positive, the whole
\* balance is transferred, then the balance is cleared.
sp_refund_remainder_result(agent, k) ==
  LET escrow == sp_escrow[k]
  IN IF ~escrow.exists THEN "AccountNotInitialized"
     ELSE IF ~(escrow.agent = agent) THEN "ConstraintHasOne"
     ELSE IF ~(escrow.balance > 0) THEN "ZeroBalance"
     ELSE IF ~TokenDebitOk(sp_vault[k], escrow.balance)
             \/ ~TokenCreditOk(wallet[agent]["usdc"], escrow.balance)
     THEN "TokenError"
     ELSE Ok

sp_refund_remainder ==
  /\ prog = "attention-marketplace"
  /\ \E agent \in Identities, k \in EscrowKeys :
       LET err == sp_refund_remainder_result(agent, k)
           amount == sp_escrow[k].balance
           l == [NoLast EXCEPT !.op = "refund_remainder", !.caller = agent,
                   !.escrow = k[1], !.mint = "usdc", !.err = err,
                   !.bal_before = amount, !.vault_before = sp_vault[k],
                   !.amount = IF err = Ok THEN amount ELSE 0,
                   !.transfers =
                     IF err = Ok THEN <<Xfer("vault", "agent_token_account", amount)>>
                     ELSE <<>>]
       IN /\ last' = l
          /\ IF err = Ok
             THEN /\ sp_escrow' = [sp_escrow EXCEPT ![k].balance = 0]
                  /\ sp_vault' = [sp_vault EXCEPT ![k] = @ - amount]
                  /\ wallet' = [wallet EXCEPT ![agent]["usdc"] = @ + amount]
             ELSE UNCHANGED <<sp_escrow, sp_vault, wallet>>
          /\ UNCHANGED <<pr_vars, am_vars, fs_vars, sp_tank_vars, prog, overflow_checks, settlements,
                         sp_config>>

\* initialize_fuel_tank: any signer creates the FuelTank and its empty token
\* account, once.
sp_initialize_fuel_tank ==
  /\ prog = "attention-marketplace"
  /\ \E admin \in Identities :
       LET err == IF sp_fuel_tank THEN "AccountAlreadyInUse" ELSE Ok
           l == [NoLast EXCEPT !.op = "initialize_fuel_tank", !.caller = admin,
                               !.err = err, !.vault_before = sp_fuel_tank_vault]
       IN /\ last' = l
          /\ sp_fuel_tank' = (sp_fuel_tank \/ err = Ok)
          /\ UNCHANGED <<pr_vars, am_vars, fs_vars, prog, overflow_checks, settlements, wallet,
                         sp_config, sp_escrow, sp_vault, sp_fuel_tank_vault, sp_human>>

\* The program has no instruction that fills the fuel tank: its token account
\* receives tokens by a transfer of the token program, here from the agent.
sp_fuel_tank_transfer ==
  /\ prog = "attention-marketplace"
  /\ sp_fuel_tank
  /\ \E from \in Agents, amount \in TankAmounts :
       LET err == IF TokenDebitOk(wallet[from]["usdc"], amount)
                     /\ TokenCreditOk(sp_fuel_tank_vault, amount)
                  THEN Ok ELSE "TokenError"
           l == [NoLast EXCEPT !.op = "token_transfer", !.caller = from,
                   !.mint = "usdc", !.amount = amount, !.to = "fuel_tank_vault",
                   !.err = err, !.vault_before = sp_fuel_tank_vault,
                   !.transfers =
                     IF err = Ok
                     THEN <<Xfer("agent_token_account", "fuel_tank_vault", amount)>>
                     ELSE <<>>]
       IN /\ last' = l
          /\ IF err = Ok
             THEN /\ wallet' = [wallet EXCEPT ![from]["usdc"] = @ - amount]
                  /\ sp_fuel_tank_vault' = sp_fuel_tank_vault + amount
             ELSE UNCHANGED <<wallet, sp_fuel_tank_vault>>
          /\ UNCHANGED <<pr_vars, am_vars, fs_vars, prog, overflow_checks, settlements,
                         sp_config, sp_escrow, sp_vault, sp_fuel_tank, sp_human>>

\* The accounts check of PayoutUser with has_one = authority left out.
sp_PayoutUser_any_signer(authority) ==
  IF ~sp_config.exists \/ ~sp_fuel_tank THEN "AccountNotInitialized"
  ELSE Ok

\* The accounts check of PayoutUser: config and fuel_tank must exist, and
\* has_one = authority compares the signer with config.authority.
sp_PayoutUser(authority) ==
  IF ~sp_config.exists \/ ~sp_fuel_tank THEN "AccountNotInitialized"
  ELSE IF ~(sp_config.authority = authority) THEN "ConstraintHasOne"
  ELSE Ok

\* payout_user: one transfer from the fuel tank's token account to the
\* recipient's associated token account of the mint given; nothing is
\* compared with the amount before the transfer.
sp_payout_user_result(amount, mint) ==
  IF mint # "usdc" \/ ~TokenDebitOk(sp_fuel_tank_vault, amount)
     \/ ~TokenCreditOk(sp_human, amount)
  THEN "TokenError"
  ELSE Ok

sp_payout_user ==
  /\ prog = "attention-marketplace"
  /\ \E c \in PayoutCalls :
       LET pre == sp_PayoutUser(c.authority)
           err == IF pre # Ok THEN pre ELSE sp_payout_user_result(c.amount, c.mint)
           l == [NoLast EXCEPT !.op = "payout_user", !.caller = c.authority,
                   !.mint = c.mint, !.amount = c.amount,
                   !.to = "human_token_account", !.err = err,
                   !.vault_before = sp_fuel_tank_vault,
                   !.bps = sp_config.fee_basis_points,
                   !.transfers =
                     IF err = Ok
                     THEN <<Xfer("fuel_tank_vault", "human_token_account", c.amount)>>
                     ELSE <<>>]
       IN /\ last' = l
          /\ IF err = Ok
             THEN /\ sp_fuel_tank_vault' = sp_fuel_tank_vault - c.amount
                  /\ sp_human' = sp_human + c.amount
             ELSE UNCHANGED <<sp_fuel_tank_vault, sp_human>>
          /\ UNCHANGED <<pr_vars, am_vars, fs_vars, prog, overflow_checks, settlements, wallet,
                         sp_config, sp_escrow, sp_vault, sp_fuel_tank>>

sp_Init ==
  /\ sp_config = NoConfig
  /\ sp_escrow = [k \in EscrowKeys |-> NoEscrowState]
  /\ sp_vault = [k \in EscrowKeys |-> 0]
  /\ sp_fuel_tank = FALSE
  /\ sp_fuel_tank_vault = 0
  /\ sp_human = 0

\* ================================================== attention_marketplace
\* (solana/programs/attention_marketplace)

am_initialize_market_config ==
  /\ prog = "attention_marketplace"
  /\ \E admin \in Initializers, fee_basis_points \in FeeBps :
       LET err == IF am_config.exists THEN "AccountAlreadyInUse" ELSE Ok
           l == [NoLast EXCEPT !.op = "initialize_market_config", !.caller = admin,
                               !.bps = fee_basis_points, !.err = err]
       IN /\ last' = l
          /\ am_config' =
               IF err = Ok
               THEN [exists |-> TRUE, authority |-> admin,
                     fee_basis_points |-> fee_basis_points]
               ELSE am_config
          /\ UNCHANGED <<pr_vars, sp_vars, fs_vars, prog, overflow_checks, settlements, wallet,
                         am_escrow, am_vault>>

\* deposit_escrow: the balance is updated first, then the transfer is made.
\* to: the token account given as vault (any token account is accepted).
am_deposit_escrow_result(agent, amount, to, mint) ==
  LET escrow == am_escrow[agent]
      balance == checked_add(escrow.balance, amount)
  IN IF balance = None
     THEN [err |-> "Panic", balance |-> escrow.balance, undone_writes |-> 1]
     ELSE IF ~TokenDebitOk(wallet[agent][mint], amount)
             \/ (to = "vault" /\ ~TokenCreditOk(am_vault[agent], amount))
     THEN [err |-> "TokenError", balance |-> escrow.balance, undone_writes |-> 3]
     ELSE [err |-> Ok, balance |-> balance, undone_writes |-> 0]

am_deposit_escrow ==
  /\ prog = "attention_marketplace"
  /\ \E agent \in Agents, c \in FundCalls :
       LET r == am_deposit_escrow_result(agent, c.amount, c.to, c.mint)
           l == [NoLast EXCEPT !.op = "deposit_escrow", !.caller = agent,
                   !.escrow = agent, !.mint = c.mint, !.amount = c.amount,
                   !.to = c.to, !.err = r.err,
                   !.bal_before = am_escrow[agent].balance,
                   !.vault_before = am_vault[agent],
                   !.undone_writes = r.undone_writes,
                   !.transfers =
                     IF r.err = Ok
                     THEN <<Xfer("agent_token_account", c.to, c.amount)>>
                     ELSE <<>>]
       IN /\ last' = l
          /\ IF r.err = Ok
             THEN /\ am_escrow' = [am_escrow EXCEPT ![agent] =
                        [exists |-> TRUE, agent |-> agent, balance |-> r.balance]]
                  /\ IF c.to = "vault"
                     THEN /\ am_vault' = [am_vault EXCEPT ![agent] = @ + c.amount]
                          /\ wallet' = [wallet EXCEPT ![agent][c.mint] = @ - c.amount]
                     ELSE UNCHANGED <<am_vault, wallet>>
             ELSE UNCHANGED <<am_escrow, am_vault, wallet>>
          /\ UNCHANGED <<pr_vars, sp_vars, fs_vars, prog, overflow_checks, settlements,
                         am_config>>

am_gross_amount(verified_seconds, agreed_price_per_second) ==
  checked_mul(verified_seconds, agreed_price_per_second)

am_fee(gross_amount, fee_basis_points) ==
  LET product == checked_mul(gross_amount, fee_basis_points)
  IN IF product = None THEN None ELSE product \div BpsDenominator

am_net_amount(gross_amount, fee) == checked_sub(gross_amount, fee)

\* The accounts check of CloseSettlement: router is a signer, nothing more.
am_CloseSettlement(router, agent) ==
  IF ~am_config.exists \/ ~am_escrow[agent].exists THEN "AccountNotInitialized"
  ELSE Ok

am_close_settlement_result(agent, verified_seconds, agreed_price_per_second) ==
  LET escrow == am_escrow[agent]
      vault == am_vault[agent]
      fail(e, w) == [err |-> e, gross |-> 0, fee |-> 0, net |-> 0,
                     balance |-> escrow.balance, vault |-> vault,
                     transfers |-> <<>>, undone_writes |-> w]
      gross_amount == am_gross_amount(verified_seconds, agreed_price_per_second)
  IN
  IF gross_amount = None THEN fail("Panic", 0)
  ELSE
  LET fee == am_fee(gross_amount, am_config.fee_basis_points) IN
  IF fee = None THEN fail("Panic", 0)
  ELSE
  LET net_amount == am_net_amount(gross_amount, fee) IN
  IF net_amount = None THEN fail("Panic", 0)
  ELSE IF ~(escrow.balance >= gross_amount) THEN fail("InsufficientEscrow", 0)
  ELSE IF ~TokenDebitOk(vault, net_amount) THEN fail("TokenError", 1)
  ELSE [err |-> Ok, gross |-> gross_amount, fee |-> fee, net |-> net_amount,
        balance |-> escrow.balance - gross_amount,
        vault |-> vault - net_amount,
        transfers |-> <<Xfer("vault", "user", net_amount)>>, undone_writes |-> 0]

am_close_settlement ==
  /\ prog = "attention_marketplace"
  /\ settlements < MaxSettlements
  /\ \E agent \in Agents, c \in StreamCalls, nonce \in Nonces :
       LET pre == am_CloseSettlement(c.router, agent)
           r == am_close_settlement_result(agent, c.usage[1], c.usage[2])
           err == IF pre # Ok THEN pre ELSE r.err
           l == [NoLast EXCEPT !.op = "close_settlement", !.caller = c.router,
                   !.nonce = nonce,
                   !.escrow = agent, !.mint = "usdc",
                   !.seconds = c.usage[1], !.price = c.usage[2], !.to = "user",
                   !.err = err, !.bps = am_config.fee_basis_points,
                   !.bal_before = am_escrow[agent].balance,
                   !.vault_before = am_vault[agent],
                   !.gross = IF err = Ok THEN r.gross ELSE 0,
                   !.fee = IF err = Ok THEN r.fee ELSE 0,
                   !.net = IF err = Ok THEN r.net ELSE 0,
                   !.transfers = IF err = Ok THEN r.transfers ELSE <<>>,
                   !.undone_writes = IF pre = Ok THEN r.undone_writes ELSE 0]
       IN /\ last' = l
          /\ IF err = Ok
             THEN /\ am_escrow' = [am_escrow EXCEPT ![agent].balance = r.balance]
                  /\ am_vault' = [am_vault EXCEPT ![agent] = r.vault]
                  /\ settlements' = settlements + 1
             ELSE UNCHANGED <<am_escrow, am_vault, settlements>>
          /\ UNCHANGED <<pr_vars, sp_vars, fs_vars, prog, overflow_checks, wallet, am_config>>

am_Init ==
  /\ am_config = NoConfig
  /\ am_escrow = [a \in Agents |-> NoEscrow]
  /\ am_vault = [a \in Agents |-> 0]

\* =========================================================== fee_splitter
\* (payment-router/programs/fee_splitter)

\* Owners of the token accounts a split names: the payer's, two treasuries'
\* and the referrer's.
Payers == {"alice"}
Treasuries == {"treasury", "treasury2"}
TokenOwners == Payers \cup Treasuries \cup {"referrer"}

ReferrerBps == {0, 2000, 5000, 5001}
SplitAmounts == {0, 7, 1000001, MaxU64}

\* Splits by the payer from its own token account, and one by a signer that
\* names the payer's token account as the source.
SplitCalls ==
  {[payer |-> "alice", source |-> "alice", treasury_token |-> t,
    amount |-> a, referrer_bps |-> b] :
      t \in Treasuries, a \in SplitAmounts, b \in ReferrerBps}
    \cup {[payer |-> "mallory", source |-> "alice", treasury_token |-> "treasury",
           amount |-> 7, referrer_bps |-> 2000]}

NoSplitterConfig ==
  [exists |-> FALSE, authority |-> NoKey, treasury |-> NoKey,
   default_referrer_bps |-> 0, total_split |-> 0]

\* (a as u128) * (b as u128) / d, for a result that fits u64: the product is
\* never formed in 64 bits.
u128_mul_div(a, b, d) == (a \div d) * b + ((a % d) * b) \div d

fs_initialize ==
  /\ prog = "fee_splitter"
  /\ \E authority \in Initializers, treasury \in {"treasury"},
         default_referrer_bps \in {2000, 5001} :
       LET err == IF fs_config.exists THEN "AccountAlreadyInUse"
                  ELSE IF ~(default_referrer_bps <= MaxReferrerBps) THEN "InvalidBps"
                  ELSE Ok
           l == [NoLast EXCEPT !.op = "initialize", !.caller = authority,
                   !.bps = default_referrer_bps, !.treasury = treasury, !.err = err]
       IN /\ last' = l
          /\ fs_config' =
               IF err = Ok
               THEN [exists |-> TRUE, authority |-> authority, treasury |-> treasury,
                     default_referrer_bps |-> default_referrer_bps, total_split |-> 0]
               ELSE fs_config
          /\ UNCHANGED <<pr_vars, sp_vars, am_vars, prog, overflow_checks, settlements,
                         wallet, fs_token>>

\* The referrer's share rounded up instead of down.
fs_referrer_amount_rounded_up(amount, referrer_bps) ==
  u128_mul_div(amount, referrer_bps, BpsDenominator)
    + (IF ((amount % BpsDenominator) * referrer_bps) % BpsDenominator = 0
       THEN 0 ELSE 1)

fs_referrer_amount(amount, referrer_bps) ==
  u128_mul_div(amount, referrer_bps, BpsDenominator)

fs_treasury_amount(amount, referrer_amount) == checked_sub(amount, referrer_amount)

\* The accounts check of SplitPayment: config exists and the source token
\* account is owned by the payer.  Nothing compares treasury_token with
\* config.treasury.
fs_SplitPayment(payer, source) ==
  IF ~fs_config.exists THEN "AccountNotInitialized"
  ELSE IF ~(source = payer) THEN "ConstraintRaw"
  ELSE Ok

\* total_split.checked_add(amount).unwrap_or(u64::MAX)
fs_total_split(total_split, amount) ==
  IF checked_add(total_split, amount) = None THEN MaxU64
  ELSE checked_add(total_split, amount)

fs_split_payment_result(source, treasury_token, amount, referrer_bps) ==
  LET fail(e, t) == [err |-> e, referrer_amount |-> 0, treasury_amount |-> 0,
                     transfers |-> <<>>, undone_transfers |-> t]
  IN
  IF ~(referrer_bps <= MaxReferrerBps) THEN fail("InvalidBps", <<>>)
  ELSE IF ~(amount > 0) THEN fail("ZeroAmount", <<>>)
  ELSE
  LET referrer_amount == fs_referrer_amount(amount, referrer_bps)
      treasury_amount == fs_treasury_amount(amount, referrer_amount)
  IN
  IF treasury_amount = None THEN fail("Panic", <<>>)
  ELSE IF treasury_amount > 0
          /\ (~TokenDebitOk(fs_token[source], treasury_amount)
              \/ ~TokenCreditOk(fs_token[treasury_token], treasury_amount))
  THEN fail("TokenError", <<>>)
  ELSE
  LET t1 == IF treasury_amount > 0
            THEN <<Xfer(source, treasury_token, treasury_amount)>> ELSE <<>>
  IN
  IF referrer_amount > 0
     /\ (~TokenDebitOk(fs_token[source] - treasury_amount, referrer_amount)
         \/ ~TokenCreditOk(fs_token["referrer"], referrer_amount))
  THEN fail("TokenError", t1)
  ELSE [err |-> Ok, referrer_amount |-> referrer_amount,
        treasury_amount |-> treasury_amount,
        transfers |->
          t1 \o (IF referrer_amount > 0
                 THEN <<Xfer(source, "referrer", referrer_amount)>> ELSE <<>>),
        undone_transfers |-> <<>>]

fs_split_payment ==
  /\ prog = "fee_splitter"
  /\ settlements < MaxSplits
  /\ \E c \in SplitCalls :
       LET pre == fs_SplitPayment(c.payer, c.source)
           r == fs_split_payment_result(c.source, c.treasury_token, c.amount,
                                        c.referrer_bps)
           err == IF pre # Ok THEN pre ELSE r.err
           l == [NoLast EXCEPT !.op = "split_payment", !.caller = c.payer,
                   !.amount = c.amount, !.bps = c.referrer_bps,
                   !.to = c.treasury_token, !.treasury = fs_config.treasury,
                   !.err = err, !.bal_before = fs_token[c.source],
                   !.vault_before = fs_token[c.treasury_token],
                   !.total_before = fs_config.total_split,
                   !.referrer_amount = IF err = Ok THEN r.referrer_amount ELSE 0,
                   !.treasury_amount = IF err = Ok THEN r.treasury_amount ELSE 0,
                   !.transfers = IF err = Ok THEN r.transfers ELSE <<>>,
                   !.undone_transfers = IF pre = Ok THEN r.undone_transfers ELSE <<>>]
       IN /\ last' = l
          /\ IF err = Ok
             THEN /\ fs_token' =
                       [fs_token EXCEPT ![c.source] = @ - c.amount,
                                        ![c.treasury_token] = @ + r.treasury_amount,
                                        !["referrer"] = @ + r.referrer_amount]
                  /\ fs_config' =
                       [fs_config EXCEPT
                          !.total_split = fs_total_split(@, c.amount)]
                  /\ settlements' = settlements + 1
             ELSE UNCHANGED <<fs_token, fs_config, settlements>>
          /\ UNCHANGED <<pr_vars, sp_vars, am_vars, prog, overflow_checks, wallet>>

\* The accounts check of UpdateConfig: config.authority == authority.key().
fs_UpdateConfig(authority) ==
  IF ~fs_config.exists THEN "AccountNotInitialized"
  ELSE IF ~(fs_config.authority = authority) THEN "Unauthorized"
  ELSE Ok

fs_update_treasury ==
  /\ prog = "fee_splitter"
  /\ \E authority \in {"admin", "mallory"}, new_treasury \in Treasuries :
       LET err == fs_UpdateConfig(authority)
           l == [NoLast EXCEPT !.op = "update_treasury", !.caller = authority,
                   !.to = new_treasury, !.treasury = fs_config.treasury, !.err = err]
       IN /\ last' = l
          /\ fs_config' = IF err = Ok THEN [fs_config EXCEPT !.treasury = new_treasury]
                          ELSE fs_config
          /\ UNCHANGED <<pr_vars, sp_vars, am_vars, prog, overflow_checks, settlements,
                         wallet, fs_token>>

fs_update_default_bps ==
  /\ prog = "fee_splitter"
  /\ \E authority \in {"admin", "mallory"}, new_bps \in {3000, 5001} :
       LET pre == fs_UpdateConfig(authority)
           err == IF pre # Ok THEN pre
                  ELSE IF ~(new_bps <= MaxReferrerBps) THEN "InvalidBps"
                  ELSE Ok
           l == [NoLast EXCEPT !.op = "update_default_bps", !.caller = authority,
                   !.bps = new_bps, !.treasury = fs_config.treasury, !.err = err]
       IN /\ last' = l
          /\ fs_config' =
               IF err = Ok THEN [fs_config EXCEPT !.default_referrer_bps = new_bps]
               ELSE fs_config
          /\ UNCHANGED <<pr_vars, sp_vars, am_vars, prog, overflow_checks, settlements,
                         wallet, fs_token>>

fs_Init ==
  /\ fs_config = NoSplitterConfig
  /\ fs_token = [o \in TokenOwners |-> IF o \in Payers THEN MaxU64 ELSE 0]

\* ------------------------------------------------------------ the system

\* One behaviour runs one program under one build profile.  The checked
\* arithmetic of the two marketplace programs does not depend on the profile.
Init ==
  /\ prog \in Programs
  /\ overflow_checks \in BOOLEAN
  /\ prog # "payment_router" => overflow_checks
  /\ settlements = 0
  /\ wallet = [a \in Agents |-> [m \in Mints |-> IF m = "usdc" THEN AgentTokens ELSE MaxU64]]
  /\ last = NoLast
  /\ pr_Init
  /\ sp_Init
  /\ am_Init
  /\ fs_Init

Next ==
  \/ pr_initialize_market_config
  \/ pr_initialize_fee_vault
  \/ pr_register_builder
  \/ pr_update_builder_wallet
  \/ pr_deposit_escrow
  \/ pr_withdraw_escrow
  \/ pr_close_settlement
  \/ pr_claim_builder_balance
  \/ pr_claim_protocol_fees
  \/ sp_initialize_config
  \/ sp_create_task
  \/ sp_fund_escrow
  \/ sp_stream_pay_human
  \/ sp_refund_remainder
  \/ sp_initialize_fuel_tank
  \/ sp_fuel_tank_transfer
  \/ sp_payout_user
  \/ am_initialize_market_config
  \/ am_deposit_escrow
  \/ am_close_settlement
  \/ fs_initialize
  \/ fs_split_payment
  \/ fs_update_treasury
  \/ fs_update_default_bps

Spec == Init /\ [][Next]_vars

\* ------------------------------------------------------------ observations

\* The MarketConfig of the program that runs.
market_config ==
  CASE prog = "payment_router" -> pr_market_config
    [] prog = "attention-marketplace" -> sp_config
    [] OTHER -> am_config

\* The balance field of the escrow record of agent a in the program that runs.
escrow_balance(a) ==
  CASE prog = "payment_router" -> pr_escrow[a].balance
    [] prog = "attention-marketplace" -> sp_escrow[<<a, "t1">>].balance
    [] OTHER -> am_escrow[a].balance

\* Does the escrow record of agent a exist?
escrow_exists(a) ==
  CASE prog = "payment_router" -> pr_escrow[a].exists
    [] prog = "attention-marketplace" -> sp_escrow[<<a, "t1">>].exists
    [] OTHER -> am_escrow[a].exists

\* Tokens in the token account the deposits of agent a go to.
escrow_pool(a, mint) ==
  CASE prog = "payment_router" -> pr_vault[a][mint]
    [] prog = "attention-marketplace" -> sp_vault[<<a, "t1">>]
    [] OTHER -> am_vault[a]

\* The last instruction was a settlement, a deposit, an initialization.
Settled == last.op \in {"close_settlement", "stream_pay_human"}

Deposited == last.op \in {"deposit_escrow", "fund_escrow"}

Initialized == last.op \in {"initialize_market_config", "initialize_config"}

\* Errors of the accounts check, raised before the handler runs.
AccountErrors ==
  {"AccountNotInitialized", "AccountAlreadyInUse", "ConstraintRaw",
   "ConstraintHasOne", "ConstraintSeeds", "Unauthorized"}

\* ------------------------------------------------------------------ claims

\* C1: in every program that settles, a settlement whose gross amount
\* (verified_seconds * price) exceeds the escrow balance fails with the
\* insufficient-funds error and leaves the escrow balance unchanged, and no
\* escrow balance is ever negative.
C1_InsufficientFunds ==
  /\ \A a \in Agents : escrow_balance(a) >= 0
  /\ LET gross == checked_mul(last.seconds, last.price)
     IN (/\ Settled
         /\ last.err \notin AccountErrors
         /\ last.caller = market_config.authority
         /\ gross # None
         /\ gross > last.bal_before)
        => /\ last.err \in {"InsufficientFunds", "InsufficientEscrow"}
           /\ escrow_balance(last.escrow) = last.bal_before

\* C2: in every program that settles, a settlement succeeds only when the
\* signer is the authority stored in MarketConfig; a call by anyone else fails
\* and leaves the escrow balance and the pool as they were.
C2_OnlyAuthoritySettles ==
  (Settled /\ escrow_exists(last.escrow) /\ market_config.exists
     /\ last.caller # market_config.authority)
  => /\ last.err # Ok
     /\ escrow_balance(last.escrow) = last.bal_before
     /\ escrow_pool(last.escrow, last.mint) = last.vault_before

\* C3: every settlement that succeeds, under every fee rate the MarketConfig
\* holds, has gross = verified_seconds * price,
\* fee = floor(gross * fee_basis_points / 10000), net = gross - fee,
\* net + fee = gross and 0 <= fee <= gross.
C3_FeeArithmetic ==
  (Settled /\ last.err = Ok)
  => /\ last.gross = last.seconds * last.price
     /\ last.fee = (last.gross * last.bps) \div BpsDenominator
     /\ last.net = last.gross - last.fee
     /\ last.net + last.fee = last.gross
     /\ 0 <= last.fee
     /\ last.fee <= last.gross

\* C4: initializing the market configuration with fee_basis_points > 10000
\* fails and creates no configuration, so the stored fee_basis_points is at
\* most 10000 in every reachable state.
C4_FeeRateBounded ==
  /\ (Initialized /\ last.bps > BpsDenominator) => last.err # Ok
  /\ market_config.fee_basis_points <= BpsDenominator

\* C5: in payment_router close_settlement with fee_amount > 0, the share
\* credited to protocol_balance plus the share credited to the BuilderBalance
\* equals fee_amount, with and without a resolved builder; with a resolved
\* builder the builder's share is floor(fee_amount / 5) and the remainder of
\* the division stays in the protocol's share.
C5_SharesSumToFee ==
  (prog = "payment_router" /\ last.op = "close_settlement" /\ last.err = Ok
     /\ last.fee > 0)
  => LET resolved == last.code # NoCode /\ last.acct # NoCode
     IN /\ last.protocol_share + last.builder_share = last.fee
        /\ pr_fee_vault_state.protocol_balance =
             last.protocol_before + last.protocol_share
        /\ resolved =>
             /\ last.builder_share = last.fee \div 5
             /\ last.protocol_share = last.fee - (last.fee \div 5)
             /\ pr_builder[last.acct].balance =
                  last.builder_before + last.builder_share
        /\ ~resolved =>
             /\ last.builder_share = 0
             /\ last.protocol_share = last.fee
             /\ \A c \in Codes : last.acct = c =>
                  pr_builder[c].balance = last.builder_before

\* A settlement with a resolved builder whose fee is no multiple of 5.
C5_Witness ==
  /\ prog = "payment_router" /\ last.op = "close_settlement" /\ last.err = Ok
  /\ last.code # NoCode /\ last.acct # NoCode
  /\ last.fee % 5 # 0
  /\ last.builder_share > 0

\* C6: a deposit of amount > 0 by the owning agent that succeeds sets the
\* balance to the balance before plus the amount, also when the escrow record
\* existed with a non-zero balance; and a deposit by anyone but the escrow's
\* agent does not succeed.
C6_DepositAdds ==
  /\ (Deposited /\ last.err = Ok /\ last.amount > 0)
     => /\ escrow_balance(last.escrow) - last.amount = last.bal_before
        /\ escrow_balance(last.escrow) >= last.bal_before
  /\ (Deposited /\ last.caller # last.escrow) => last.err # Ok

\* C7: a deposit with amount = 0 is rejected with ZeroAmount in every deposit
\* operation; it creates no escrow record and makes no transfer.
C7_ZeroDepositRejected ==
  (Deposited /\ last.amount = 0 /\ last.err \notin AccountErrors)
  => /\ last.err = "ZeroAmount"
     /\ last.transfers = <<>>
     /\ escrow_balance(last.escrow) = last.bal_before

\* C8: a deposit whose amount would take the escrow balance past the largest
\* value of its type fails and leaves the balance unchanged; the stored
\* balance never wraps around to a smaller value.
C8_DepositOverflowFails ==
  (Deposited /\ last.err \notin AccountErrors /\ last.bal_before > MaxU64 - last.amount)
  => /\ last.err # Ok
     /\ escrow_balance(last.escrow) = last.bal_before

\* C9: payment_router withdraw_escrow succeeds only for the escrow's own agent
\* and an amount no larger than the balance; it then lowers the balance and
\* the pool by the amount and transfers the amount from the pool to the agent.
\* With an amount larger than the balance it fails with InsufficientFunds and
\* changes neither the balance nor the pool.
C9_Withdraw ==
  (prog = "payment_router" /\ last.op = "withdraw_escrow")
  => /\ last.err = Ok =>
          /\ last.caller \in Agents
          /\ last.escrow = last.caller
          /\ pr_escrow[last.escrow].agent = last.caller
          /\ last.amount <= last.bal_before
          /\ pr_escrow[last.escrow].balance = last.bal_before - last.amount
          /\ pr_vault[last.escrow][last.mint] = last.vault_before - last.amount
          /\ last.transfers = <<Xfer("vault", "agent_token_account", last.amount)>>
     /\ (last.escrow # NoKey /\ escrow_exists(last.escrow)
           /\ last.amount > last.bal_before) =>
          /\ last.err = "InsufficientFunds"
          /\ pr_escrow[last.escrow].balance = last.bal_before
          /\ pr_vault[last.escrow][last.mint] = last.vault_before
          /\ last.transfers = <<>>

\* A withdrawal that succeeded and left part of the balance in the escrow.
C9_Witness ==
  /\ prog = "payment_router" /\ last.op = "withdraw_escrow" /\ last.err = Ok
  /\ last.amount > 0
  /\ last.bal_before > last.amount
  /\ pr_escrow[last.escrow].balance = last.bal_before - last.amount

\* C10: refund_remainder by the escrow's agent with balance b > 0 transfers
\* exactly b to the agent and sets the balance to 0; with balance 0 it fails
\* with ZeroBalance and transfers nothing; a signer that is not the escrow's
\* agent never refunds it.
C10_Refund ==
  (prog = "attention-marketplace" /\ last.op = "refund_remainder")
  => \A k \in EscrowKeys : (k[1] = last.escrow /\ sp_escrow[k].exists) =>
       /\ last.err = Ok =>
            /\ last.caller = sp_escrow[k].agent
            /\ last.bal_before > 0
            /\ last.transfers =
                 <<Xfer("vault", "agent_token_account", last.bal_before)>>
            /\ sp_escrow[k].balance = 0
            /\ sp_vault[k] = last.vault_before - last.bal_before
       /\ (last.caller = sp_escrow[k].agent /\ last.bal_before = 0) =>
            /\ last.err = "ZeroBalance"
            /\ last.transfers = <<>>
            /\ sp_escrow[k].balance = 0
            /\ sp_vault[k] = last.vault_before
       /\ last.caller # sp_escrow[k].agent =>
            /\ last.err # Ok
            /\ sp_escrow[k].balance = last.bal_before
            /\ sp_vault[k] = last.vault_before

\* A refund that paid out what a settlement had left in the escrow.
C10_Witness ==
  /\ prog = "attention-marketplace" /\ last.op = "refund_remainder"
  /\ last.err = Ok
  /\ settlements > 0
  /\ last.amount > 0
  /\ \A k \in EscrowKeys : sp_escrow[k].balance = 0

\* The last instruction was a builder claim, a protocol claim.
BuilderClaimed == prog = "payment_router" /\ last.op = "claim_builder_balance"

ProtocolClaimed == prog = "payment_router" /\ last.op = "claim_protocol_fees"

\* C11: claim_builder_balance on a BuilderBalance with balance 0, and
\* claim_protocol_fees with protocol_balance 0, fail with NothingToClaim and
\* make no transfer; a claim that follows a successful claim of the same
\* balance at once does not succeed.
C11_NothingToClaim ==
  /\ [](/\ (BuilderClaimed /\ pr_fee_vault_state.exists
              /\ pr_builder[last.code].exists
              /\ last.caller = pr_builder[last.code].wallet
              /\ last.builder_before = 0)
             => (last.err = "NothingToClaim" /\ last.transfers = <<>>)
        /\ (ProtocolClaimed /\ pr_fee_vault_state.exists
              /\ last.caller = pr_fee_vault_state.authority
              /\ last.protocol_before = 0)
             => (last.err = "NothingToClaim" /\ last.transfers = <<>>))
  /\ [][(BuilderClaimed /\ last.err = Ok /\ last'.op = "claim_builder_balance"
           /\ last'.code = last.code)
          => (last'.err # Ok /\ last'.transfers = <<>>)]_vars
  /\ [][(ProtocolClaimed /\ last.err = Ok /\ last'.op = "claim_protocol_fees")
          => (last'.err # Ok /\ last'.transfers = <<>>)]_vars

\* The wallet claims again after it has claimed all the builder has earned.
C11_Witness ==
  /\ BuilderClaimed /\ last.err = "NothingToClaim"
  /\ last.caller = pr_builder[last.code].wallet
  /\ last.earned_before > 0
  /\ last.builder_before = 0

\* C12: claim_builder_balance succeeds only for the signer that is the
\* registered wallet; it then transfers the whole balance from the fee pool to
\* that wallet, sets the balance to 0 and leaves total_earned, builder_code,
\* wallet, protocol_balance and total_collected as they were.
C12_BuilderClaim ==
  (BuilderClaimed /\ last.err = Ok)
  => LET b == pr_builder[last.code]
     IN /\ last.caller = last.wallet_before
        /\ last.builder_before > 0
        /\ last.transfers =
             <<Xfer("fee_vault", "builder_wallet", last.builder_before)>>
        /\ pr_fee_vault[last.mint] = last.vault_before - last.builder_before
        /\ b.balance = 0
        /\ b.total_earned = last.earned_before
        /\ b.builder_code = last.code
        /\ b.wallet = last.wallet_before
        /\ pr_fee_vault_state.protocol_balance = last.protocol_before
        /\ pr_fee_vault_state.total_collected = last.collected_before

\* A builder claim that paid out while the protocol's share stayed in the pool.
C12_Witness ==
  /\ BuilderClaimed /\ last.err = Ok
  /\ last.amount > 0
  /\ pr_fee_vault_state.protocol_balance > 0
  /\ pr_builder[last.code].total_earned = last.amount

\* A protocol claim that succeeded was the authority's and paid the whole
\* protocol balance.
C16_Paid ==
  (ProtocolClaimed /\ last.err = Ok)
  => /\ last.caller = pr_fee_vault_state.authority
     /\ last.protocol_before > 0
     /\ last.transfers =
          <<Xfer("fee_vault", "admin_wallet", last.protocol_before)>>
     /\ pr_fee_vault[last.mint] = last.vault_before - last.protocol_before
     /\ pr_fee_vault_state.protocol_balance = 0
     /\ pr_fee_vault_state.total_collected = last.collected_before

\* A protocol claim by another signer failed and changed nothing.
C16_Refused ==
  (ProtocolClaimed /\ pr_fee_vault_state.exists
     /\ last.caller # pr_fee_vault_state.authority)
  => /\ last.err = "Unauthorized"
     /\ last.transfers = <<>>
     /\ pr_fee_vault[last.mint] = last.vault_before
     /\ pr_fee_vault_state.protocol_balance = last.protocol_before
     /\ pr_fee_vault_state.total_collected = last.collected_before

\* C16: claim_protocol_fees succeeds only for the signer that is
\* FeeVaultState.authority; it then transfers exactly protocol_balance out of
\* the fee pool and sets it to 0, and changes neither total_collected nor a
\* BuilderBalance; a call by anyone else fails with Unauthorized and changes
\* nothing.
C16_ProtocolClaim ==
  /\ [](C16_Paid /\ C16_Refused)
  /\ [][last'.op = "claim_protocol_fees" => pr_builder' = pr_builder]_vars

\* A protocol claim that paid out after a settlement with a builder's share.
C16_Witness ==
  /\ ProtocolClaimed /\ last.err = Ok
  /\ last.amount > 0
  /\ last.amount < pr_fee_vault_state.total_collected

\* The last instruction was a rotation of a registered builder's wallet.
Rotated ==
  /\ prog = "payment_router" /\ last.op = "update_builder_wallet"
  /\ pr_builder[last.code].exists

\* C13: update_builder_wallet changes the wallet only when the signer is the
\* wallet registered at the time; any other signer (the admin, a wallet
\* rotated out before) fails with Unauthorized and the wallet stays; a
\* rotation leaves balance, total_earned and builder_code as they were, and
\* the next claim or rotation succeeds only for the new wallet.
C13_WalletRotation ==
  /\ [](Rotated =>
          LET b == pr_builder[last.code]
          IN /\ b.balance = last.builder_before
             /\ b.total_earned = last.earned_before
             /\ b.builder_code = last.code
             /\ last.caller = last.wallet_before
                  => (last.err = Ok /\ b.wallet = last.to)
             /\ last.caller # last.wallet_before
                  => (last.err = "Unauthorized" /\ b.wallet = last.wallet_before))
  /\ [][(Rotated /\ last.err = Ok
           /\ last'.op \in {"claim_builder_balance", "update_builder_wallet"}
           /\ last'.code = last.code /\ last'.caller # last.to)
          => last'.err # Ok]_vars

\* The wallet that was rotated out tries to rotate again, with a balance
\* waiting to be claimed.
C13_Witness ==
  /\ Rotated /\ last.err = "Unauthorized"
  /\ last.caller = "alice"
  /\ last.wallet_before = "mallory"
  /\ last.builder_before > 0

\* C14: register_builder succeeds only when the signer is the administrator
\* stored at initialization; a call by any other signer fails and creates no
\* BuilderBalance.
C14_RegisterAdminOnly ==
  (prog = "payment_router" /\ last.op = "register_builder"
     /\ pr_market_config.exists /\ pr_fee_vault_state.exists
     /\ last.caller \notin {pr_market_config.authority, pr_fee_vault_state.authority})
  => /\ last.err # Ok
     /\ pr_builder[last.code].wallet = last.wallet_before

\* C15: register_builder for a code that is registered fails and leaves the
\* record's wallet, balance and total_earned as they were; a new registration
\* starts with balance 0 and total_earned 0; the builder_code of a registered
\* record is the code it was registered under, always.
C15_RegisterOnce ==
  /\ \A c \in Codes : pr_builder[c].exists => pr_builder[c].builder_code = c
  /\ (prog = "payment_router" /\ last.op = "register_builder")
     => LET b == pr_builder[last.code]
        IN /\ last.wallet_before # NoKey
                => /\ last.err # Ok
                   /\ b.wallet = last.wallet_before
                   /\ b.balance = last.builder_before
                   /\ b.total_earned = last.earned_before
           /\ last.err = Ok
                => /\ last.wallet_before = NoKey
                   /\ b.exists
                   /\ b.wallet = last.to
                   /\ b.balance = 0
                   /\ b.total_earned = 0

\* A second registration of a code whose builder has earned a share.
C15_Witness ==
  /\ prog = "payment_router" /\ last.op = "register_builder"
  /\ last.err = "AccountAlreadyInUse"
  /\ last.earned_before > 0
  /\ last.to # last.wallet_before

C19_Requested ==
  (IF last.net > 0 THEN <<Xfer("vault", last.to, last.net)>> ELSE <<>>)
    \o (IF last.fee > 0
        THEN <<Xfer("vault",
                    IF prog = "payment_router" THEN "fee_vault" ELSE "fee_treasury",
                    last.fee)>>
        ELSE <<>>)

\* What the requested transfers take out of the escrow's pool: a transfer
\* from the pool to itself takes nothing.
C19_Moved ==
  (IF last.net > 0 /\ last.to # "vault" THEN last.net ELSE 0) + last.fee

\* A settlement that failed made no transfer and left the escrow balance and
\* the pool as they were.
C19_Failed ==
  (Settled /\ last.err = "TokenError") =>
    /\ last.transfers = <<>>
    /\ escrow_balance(last.escrow) = last.bal_before
    /\ escrow_pool(last.escrow, last.mint) = last.vault_before

\* A settlement that debited the escrow made every transfer it requested.
C19_Applied ==
  (Settled /\ last.err = Ok /\ prog # "attention_marketplace") =>
    /\ last.transfers = C19_Requested
    /\ escrow_pool(last.escrow, last.mint) = last.vault_before - C19_Moved

\* C19: if a transfer requested by a settlement fails (the net transfer to
\* the recipient or the fee transfer to the fee pool), the settlement is not
\* applied: the escrow balance is not debited, no pool has moved tokens, and
\* protocol_balance, total_collected and every BuilderBalance are unchanged;
\* no state shows a debit without both requested transfers, or the first
\* transfer without the second.
C19_SettlementAtomic ==
  /\ [](C19_Failed /\ C19_Applied)
  /\ [][(Settled' /\ last'.err = "TokenError") =>
          UNCHANGED <<pr_escrow, pr_vault, pr_fee_vault, pr_fee_vault_state,
                      pr_builder, sp_escrow, sp_vault, wallet>>]_vars

\* The fee transfer of a settlement fails after the net transfer was made,
\* and the escrow still holds the balance and the pool its tokens.
C19_Witness ==
  /\ Settled /\ last.err = "TokenError"
  /\ last.undone_writes > 0
  /\ Len(last.undone_transfers) = 1
  /\ escrow_balance(last.escrow) = last.bal_before
  /\ escrow_pool(last.escrow, last.mint) = last.vault_before
  /\ last.vault_before > 0

\* C20: in every operation, every precondition check (authorization, amount,
\* sufficiency, overflow of the gross amount and of the fee product) is
\* evaluated before the operation's first record mutation and before its
\* first transfer request, so a failed operation never has written a record
\* or issued a transfer.
C20_ChecksBeforeEffects ==
  last.err # Ok => (last.undone_writes = 0 /\ last.undone_transfers = <<>>)

\* The last instruction was a fuel-tank payout.
PaidOut == prog = "attention-marketplace" /\ last.op = "payout_user"

\* A payout that succeeded was called by the authority and made one
\* transfer, of amount, from the fuel tank's pool to the recipient; a payout
\* the accounts check let through fails only in the transfer.
C21_ByAuthority ==
  PaidOut =>
    /\ last.err = Ok =>
         /\ last.caller = sp_config.authority
         /\ last.transfers =
              <<Xfer("fuel_tank_vault", "human_token_account", last.amount)>>
         /\ sp_fuel_tank_vault = last.vault_before - last.amount
    /\ last.err # Ok =>
         /\ last.transfers = <<>>
         /\ sp_fuel_tank_vault = last.vault_before
    /\ (sp_config.exists /\ sp_fuel_tank /\ last.caller = sp_config.authority) =>
         /\ last.err \in {Ok, "TokenError"}
         /\ (last.amount > last.vault_before => last.err = "TokenError")
    /\ (sp_config.exists /\ last.caller # sp_config.authority) => last.err # Ok

\* C21: a fuel-tank payout (payout_user) succeeds only when the caller equals
\* MarketConfig.authority, and it bypasses the escrow and fee path: it
\* changes no escrow balance, no escrow pool and no MarketConfig field, and
\* moves amount only from the fuel-tank pool to the recipient, with no local
\* sufficiency check (failure comes only from the transfer).
C21_Payout ==
  /\ []C21_ByAuthority
  /\ [][last'.op = "payout_user" =>
          /\ UNCHANGED <<sp_config, sp_escrow, sp_vault, sp_fuel_tank, wallet>>
          /\ sp_fuel_tank_vault' + sp_human' = sp_fuel_tank_vault + sp_human
          /\ sp_human' - sp_human = (IF last'.err = Ok THEN last'.amount ELSE 0)]_vars

\* The authority pays out of a funded fuel tank while an escrow holds a
\* balance.
C21_Witness ==
  /\ PaidOut /\ last.err = Ok
  /\ last.amount > 0
  /\ sp_human >= last.amount
  /\ \E k \in EscrowKeys : sp_escrow[k].balance > 0 /\ sp_vault[k] > 0

\* The settlement of the scenario: fee rate 1500, a registered builder, an
\* escrow holding the deposit of 1000000 in its pool, and the authority
\* settling 100 seconds at 5000 with the builder's code and record.
C22_Settlement ==
  /\ prog = "payment_router" /\ last.op = "close_settlement"
  /\ last.caller = pr_market_config.authority
  /\ pr_fee_vault_state.exists /\ pr_builder["b1"].exists
  /\ last.bps = 1500 /\ last.seconds = 100 /\ last.price = 5000
  /\ last.code = "b1" /\ last.acct = "b1" /\ last.mint = "usdc"
  /\ last.bal_before = 1000000 /\ last.vault_before = 1000000

\* The builder claim of the scenario: the registered wallet claims the share
\* of that settlement.
C22_Claim ==
  /\ BuilderClaimed
  /\ last.caller = last.wallet_before /\ last.caller \in TokenAccountKeys
  /\ last.builder_before = 15000 /\ last.earned_before = 15000

\* C22: at 1500 bps with a registered builder and a deposit of 1000000, the
\* authority's settlement of 100 seconds at 5000 with the builder's code has
\* gross 500000, fee 75000, net 425000, builder_share 15000, protocol_share
\* 60000 and leaves escrow balance 500000; a following builder claim
\* transfers exactly 15000 and leaves builder balance 0 with total_earned
\* 15000.
C22_Scenario ==
  /\ C22_Settlement =>
       /\ last.err = Ok
       /\ last.gross = 500000 /\ last.fee = 75000 /\ last.net = 425000
       /\ last.builder_share = 15000 /\ last.protocol_share = 60000
       /\ pr_escrow[last.escrow].balance = 500000
       /\ pr_builder["b1"].balance = last.builder_before + 15000
       /\ pr_builder["b1"].total_earned = last.earned_before + 15000
       /\ pr_fee_vault_state.protocol_balance = last.protocol_before + 60000
       /\ last.transfers = <<Xfer("vault", "user", 425000),
                             Xfer("vault", "fee_vault", 75000)>>
  /\ C22_Claim =>
       /\ last.err = Ok
       /\ last.transfers = <<Xfer("fee_vault", "builder_wallet", 15000)>>
       /\ pr_builder[last.code].balance = 0
       /\ pr_builder[last.code].total_earned = 15000

\* The claim that follows the scenario's settlement.
C22_Witness ==
  /\ C22_Claim /\ last.err = Ok
  /\ pr_market_config.fee_basis_points = 1500
  /\ \E a \in Agents : pr_escrow[a].balance = 500000 /\ pr_vault[a]["usdc"] = 500000
  /\ pr_fee_vault_state.total_collected = 75000
  /\ pr_fee_vault["usdc"] = 60000

\* The last instruction was a split.
Split == prog = "fee_splitter" /\ last.op = "split_payment"

\* amount * referrer_bps - referrer_amount * 10000, formed without the
\* product of amount and referrer_bps.
C23_Remainder ==
  BpsDenominator * ((last.amount \div BpsDenominator) * last.bps - last.referrer_amount)
    + (last.amount % BpsDenominator) * last.bps

\* C23: split_payment rejects referrer_bps > 5000 and amount = 0 without
\* transferring anything; otherwise referrer_amount is
\* floor(amount * referrer_bps / 10000), treasury_amount is amount minus
\* referrer_amount, the two transfers sum to amount exactly, and
\* referrer_amount <= treasury_amount.
C23_Split ==
  Split =>
    /\ (last.bps > MaxReferrerBps \/ last.amount = 0) =>
         /\ last.err # Ok
         /\ last.transfers = <<>> /\ last.undone_transfers = <<>>
         /\ fs_token[last.caller] = last.bal_before
         /\ fs_token[last.to] = last.vault_before
         /\ fs_config.exists =>
              last.err = (IF last.bps > MaxReferrerBps THEN "InvalidBps"
                          ELSE "ZeroAmount")
    /\ last.err = Ok =>
         /\ C23_Remainder >= 0 /\ C23_Remainder < BpsDenominator
         /\ last.treasury_amount = last.amount - last.referrer_amount
         /\ last.referrer_amount <= last.treasury_amount
         /\ last.transfers =
              <<Xfer(last.caller, last.to, last.treasury_amount)>>
                \o (IF last.referrer_amount > 0
                    THEN <<Xfer(last.caller, "referrer", last.referrer_amount)>>
                    ELSE <<>>)
         /\ fs_token[last.caller] = last.bal_before - last.amount
         /\ fs_token[last.to] = last.vault_before + last.treasury_amount

\* A split of the largest amount at the largest rate, where the product
\* amount * referrer_bps does not fit 64 bits and the division leaves a
\* remainder.
C23_Witness ==
  /\ Split /\ last.err = Ok
  /\ last.amount = MaxU64 /\ last.bps = MaxReferrerBps
  /\ last.referrer_amount > 0
  /\ last.referrer_amount < last.treasury_amount
  /\ checked_mul(last.amount, last.bps) = None

\* C24: split_payment sends the treasury share to the treasury configured in
\* SplitterConfig.treasury: for every successful split the account credited
\* with treasury_amount belongs to config.treasury; update_treasury succeeds
\* only for the authority, and later splits credit the new treasury.
C24_TreasuryCredited ==
  /\ (Split /\ last.err = Ok) =>
       /\ last.treasury = fs_config.treasury
       /\ last.to = fs_config.treasury
  /\ (prog = "fee_splitter" /\ last.op = "update_treasury" /\ last.err = Ok) =>
       /\ last.caller = fs_config.authority
       /\ fs_config.treasury = last.to

\* C25: after every successful settlement with fee > 0, in every settling
\* program, the escrow pool has lost exactly gross tokens: net went to the
\* recipient and fee went to the fee pool (or fee treasury) in one transfer,
\* so the escrow's recorded balance and its pool decrease by the same amount.
C25_PoolLosesGross ==
  (Settled /\ last.err = Ok /\ last.fee > 0) =>
    /\ escrow_balance(last.escrow) = last.bal_before - last.gross
    /\ escrow_pool(last.escrow, last.mint) = last.vault_before - last.gross
    /\ \E i \in DOMAIN last.transfers :
         /\ last.transfers[i].from = "vault"
         /\ last.transfers[i].to \in {"fee_vault", "fee_treasury"}
         /\ last.transfers[i].amount = last.fee

\* A payment_router settlement without a builder: no code is given, or no
\* BuilderBalance account is passed.
C26_NoBuilder ==
  /\ prog = "payment_router" /\ last.op = "close_settlement"
  /\ (last.code = NoCode \/ last.acct = NoCode)

\* Without a builder the accounts check asks for nothing more, and a
\* settlement that succeeds with a fee gives the whole fee to the protocol.
C26_WholeFee ==
  C26_NoBuilder =>
    /\ ( /\ pr_market_config.exists /\ pr_fee_vault_state.exists
         /\ pr_escrow[last.escrow].exists
         /\ last.caller = pr_market_config.authority
         /\ last.acct = NoCode ) => last.err \notin AccountErrors
    /\ (last.err = Ok /\ last.fee > 0) =>
         /\ last.builder_share = 0
         /\ last.protocol_share = last.fee
         /\ pr_fee_vault_state.protocol_balance = last.protocol_before + last.fee
         /\ pr_fee_vault_state.total_collected = last.collected_before + last.fee

C27_FeeNeverOverflows ==
  LET gross == checked_mul(last.seconds, last.price)
  IN (Settled /\ last.bps <= BpsDenominator /\ last.err \notin AccountErrors
        /\ gross # None /\ last.bal_before >= gross /\ last.vault_before >= gross)
     => /\ last.err = Ok
        /\ last.fee = u128_mul_div(gross, last.bps, BpsDenominator)

\* C28: a settlement whose product verified_seconds * price does not fit the
\* balance type fails with MathOverflow before anything is debited or
\* transferred, in every settling program; the product is never truncated
\* to a smaller gross.
C28_GrossOverflow ==
  (Settled /\ last.err \notin AccountErrors
     /\ checked_mul(last.seconds, last.price) = None)
  => /\ last.err = "MathOverflow"
     /\ last.undone_writes = 0 /\ last.undone_transfers = <<>>
     /\ last.transfers = <<>>
     /\ escrow_balance(last.escrow) = last.bal_before
     /\ escrow_pool(last.escrow, last.mint) = last.vault_before

\* The settlement of this step has the arguments of the settlement before
\* it, which was applied.
C29_Replay ==
  /\ prog \in {"payment_router", "attention_marketplace"}
  /\ last.op = "close_settlement" /\ last.err = Ok
  /\ last'.op = "close_settlement"
  /\ last'.caller = last.caller /\ last'.escrow = last.escrow
  /\ last'.nonce = last.nonce
  /\ last'.seconds = last.seconds /\ last'.price = last.price
  /\ last'.code = last.code /\ last'.acct = last.acct
  /\ last'.mint = last.mint /\ last'.to = last.to

\* The balance covers the gross of the settlement before, and the pool the
\* transfers it made.
C29_Covered ==
  LET pool == escrow_pool(last.escrow, last.mint)
      taken == IF last.net > 0 /\ last.to # "vault" THEN last.net ELSE 0
      fee == IF prog = "payment_router" THEN last.fee ELSE 0
  IN /\ escrow_balance(last.escrow) >= last.gross
     /\ pool >= last.net
     /\ pool - taken >= fee

\* C29: close_settlement has no replay protection: the nonce is never checked
\* against prior use, so two calls by the authority with identical arguments
\* (same nonce, seconds, price) are both applied, each debiting the escrow by
\* gross and paying out again, as long as the balance covers them.
C29_NoReplayProtection ==
  [][(C29_Replay /\ C29_Covered) =>
       /\ last'.err = Ok
       /\ last'.gross = last.gross
       /\ last'.transfers = last.transfers
       /\ escrow_balance(last.escrow)' = escrow_balance(last.escrow) - last.gross
       /\ settlements' = settlements + 1]_vars

\* The second of two settlements of 100 seconds at 5000 with the same nonce
\* on a deposit of 1000000, both applied.
C29_Witness ==
  /\ prog = "payment_router" /\ last.op = "close_settlement" /\ last.err = Ok
  /\ last.nonce \in Nonces /\ settlements = 2
  /\ last.seconds = 100 /\ last.price = 5000 /\ last.code = NoCode
  /\ last.bal_before = 500000 /\ pr_escrow[last.escrow].balance = 0
  /\ last.collected_before = 75000 /\ last.protocol_before = 75000
  /\ pr_fee_vault_state.protocol_balance = 150000
  /\ pr_fee_vault["usdc"] = 150000

\* Tokens in the token accounts of the escrow of agent a, whatever the mint.
C30_Pool(a) == pr_vault[a]["usdc"] + pr_vault[a]["alt"]

\* C30: in payment_router, after any sequence of deposit_escrow,
\* withdraw_escrow and close_settlement on an agent's escrow, the tokens held
\* in the escrow's pool equal the recorded escrow.balance, so a withdrawal of
\* an amount within the balance is never rejected by the token program for
\* lack of pool funds.
C30_PoolEqualsBalance ==
  prog = "payment_router" =>
    \A a \in Agents :
      /\ pr_escrow[a].exists => C30_Pool(a) = pr_escrow[a].balance
      /\ (last.op = "withdraw_escrow" /\ last.escrow = a
            /\ last.amount <= last.bal_before)
           => ~(last.err = "TokenError" /\ last.vault_before < last.amount)

\* Tokens in the token accounts of the fee vault, whatever the mint.
C31_FeePool == pr_fee_vault["usdc"] + pr_fee_vault["alt"]

\* The last instruction was a claim of a non-zero balance by its owner that
\* the token program refused because the fee token account holds less.
C31_ClaimUnpaid ==
  /\ last.op \in {"claim_builder_balance", "claim_protocol_fees"}
  /\ last.bal_before > 0 /\ last.err = "TokenError"
  /\ last.vault_before < last.bal_before

\* C31: in payment_router, after any sequence of settlements, builder claims
\* and protocol claims, the tokens held in the fee pool equal protocol_balance
\* plus the sum of the BuilderBalance balances, so every claim of a non-zero
\* balance is paid in full whatever the order of the claims; and
\* total_collected and each total_earned never decrease.
C31_FeePoolBacksBalances ==
  /\ [](prog = "payment_router" =>
         /\ C31_FeePool = pr_fee_vault_state.protocol_balance
                            + pr_builder["b1"].balance
         /\ ~C31_ClaimUnpaid)
  /\ [][prog = "payment_router" =>
          /\ pr_fee_vault_state'.total_collected
               >= pr_fee_vault_state.total_collected
          /\ pr_builder'["b1"].total_earned >= pr_builder["b1"].total_earned]_vars

====
